---- MODULE Spec2Model ----
(***************************************************************************)
(* Celebra chat client: the transcript store (loadHistory, saveHistory,    *)
(* addMessageToHistory, clearHistory) and the model-fallback cascade of    *)
(* the form's submit handler, as found in src/api/gemini.js.               *)
(*                                                                         *)
(* A text is modelled by its length (the only thing the store looks at)    *)
(* and by the run that produced it (0 when it comes from no cascade run).  *)
(* JavaScript runs each handler to completion: `running` names the run     *)
(* whose synchronous code is executing, and while it is not 0 no other     *)
(* handler may start.  A run is in one of                                  *)
(*   idle       not submitted yet                                          *)
(*   start      user turn persisted (line 471), about to run line 472      *)
(*   issue      about to run the loop body from line 479                   *)
(*   await      request sent, awaiting sendMessageToGemini (line 488)      *)
(*   reveal     reply received, awaiting revealParagraphs (line 509)       *)
(*   backoff    awaiting the 600 ms timer (line 562)                       *)
(*   succeeded, cancelled, exhausted, failed    the handler has returned   *)
(***************************************************************************)
EXTENDS Integers, Sequences, FiniteSets, TLC

VARIABLES
  store,                  \* localStorage[HISTORY_KEY], decoded: a sequence of turns
  nAppends,               \* number of store operations performed (store specifications)
  rawKind,                \* what reading the stored value finds: "array" (store holds it),
                          \* "missing", "unparseable", "notArray" or "badElement"
  lastCall,               \* the latest direct call of a store operation and its outcome
  selectedModelIndex,     \* let selectedModelIndex
  currentAbortController, \* let currentAbortController: 0 = null, r = run r's latest controller
  sending,                \* sendBtn has class 'sending'
  running,                \* the run whose synchronous code is executing, 0 = none
  nextRun,                \* number of submissions so far
  nUserActions,           \* number of tier selections and new-chat clicks so far
  pc,                     \* pc[r]: where the submit handler invocation r stands
  attemptIndex,           \* attemptIndex[r]: let attemptIndex
  attempted,              \* attempted[r]: const attempted = new Set()
  contents,               \* contents[r]: const baseContents
  abortCount,             \* abortCount[r]: abort() calls on run r's latest controller
  tries,                  \* tries[r]: tier indices of the requests issued by r, in order
  disturbed,              \* active runs during which something else moved selectedModelIndex
  stoppedInBackoff,       \* runs for which stop was pressed while they waited out the backoff
  lastEvent,              \* how the latest step settled an attempt, if it did
  env,                    \* the relay's environment: GEMINI_API_KEY set, ALLOWED_ORIGINS set
  now,                    \* the relay's clock, in seconds
  rateMap,                \* global.__celebraRateLimitMap: per source address, count and reset
  exchange,               \* the latest request the relay handled and its answer
  rateLog,                \* the requests that reached the rate-limit check, in order
  nRequests,              \* number of requests handled so far
  rawReply,               \* the argument of extractTextFromResponse
  replyText,              \* what lines 490-505 made of rawReply
  script                  \* script.js: the bubbles marked retried, whether the resubmission
                          \* timer is pending, and the resubmissions since the user's turn

vars == <<store, nAppends, rawKind, lastCall, selectedModelIndex, currentAbortController, sending,
          running, nextRun, nUserActions, pc, attemptIndex, attempted, contents,
          abortCount, tries, disturbed, stoppedInBackoff, lastEvent,
          env, now, rateMap, exchange, rateLog, nRequests, rawReply, replyText, script>>

storeVars == <<store, nAppends, rawKind, lastCall>>
sessionVars == <<selectedModelIndex, currentAbortController, sending>>
runVars == <<running, nextRun, nUserActions, pc, attemptIndex, attempted, contents, abortCount>>
ghostVars == <<tries, disturbed, stoppedInBackoff, lastEvent>>
relayVars == <<env, now, rateMap, exchange, rateLog, nRequests>>
extractVars == <<rawReply, replyText>>

-----------------------------------------------------------------------------
(* Bounds of the model *)

MaxRuns == 1
MaxUserActions == 1
MaxAppends == 4

(* Program constants *)

HISTORY_MAX_MESSAGES == 16
HISTORY_MAX_CHARS == 8000
NumModels == 5
DefaultModelIndex == 2

\* the wide specification admits two submissions more than MaxRuns
Runs == 1..(MaxRuns + 2)
ModelIndices == 0..(NumModels - 1)

-----------------------------------------------------------------------------
(* Transcript store *)

Text(run, len) == [run |-> run, len |-> len]
Turn(role, text) == [role |-> role, text |-> text]

RECURSIVE SumLen(_)
SumLen(s) == IF s = <<>> THEN 0 ELSE Head(s).text.len + SumLen(Tail(s))

\* Array.prototype.slice(-n)
SliceLast(s, n) == IF Len(s) <= n THEN s ELSE SubSeq(s, Len(s) - n + 1, Len(s))

\* a budget loop that drops everything but the newest turn once over budget
EvictCharsToOne(out, total) ==
  IF Len(out) > 1 /\ total > HISTORY_MAX_CHARS THEN <<out[Len(out)]>> ELSE out

\* the while loop of saveHistory: shift the oldest turn while more than one
\* turn is left and the total is over the budget
RECURSIVE EvictChars(_, _)
EvictChars(out, total) ==
  IF Len(out) > 1 /\ total > HISTORY_MAX_CHARS
  THEN EvictChars(Tail(out), total - Head(out).text.len)
  ELSE out

\* saveHistory without the character-budget loop
SaveHistoryNoCharCap(hist) == SliceLast(hist, HISTORY_MAX_MESSAGES)

\* the value saveHistory(hist) writes under HISTORY_KEY
saveHistory(hist) ==
  LET out == SliceLast(hist, HISTORY_MAX_MESSAGES)
  IN  EvictChars(out, SumLen(out))

\* m => ({ role: m.role, text: String(m.text || '') })
LoadTurn(m) ==
  [role |-> m.role, text |-> IF m.text.len > 0 THEN m.text ELSE Text(m.text.run, 0)]

\* loadHistory that reads back one turn less than the count cap
LoadHistoryShort(st) ==
  LET sl == SliceLast(st, HISTORY_MAX_MESSAGES - 1)
  IN  [i \in 1..Len(sl) |-> LoadTurn(sl[i])]

\* loadHistory() when the stored value is the array st
loadHistory(st) ==
  LET sl == SliceLast(st, HISTORY_MAX_MESSAGES)
  IN  [i \in 1..Len(sl) |-> LoadTurn(sl[i])]

\* null / undefined as the text argument
NullText == [run |-> 0, len |-> -1]

\* lines 169-170: cur after cur.push({ role: ..., text: String(text) })
PushedHistory(cur, role, text) ==
  Append(cur, Turn(IF role = "assistant" THEN "assistant" ELSE "user", text))

\* role is "" for a falsy role
addMessageToHistory(st, role, text) ==
  IF role = "" \/ text = NullText
  THEN st
  ELSE saveHistory(PushedHistory(loadHistory(st), role, text))

clearHistory(st) == <<>>

(* The store on a storage engine that may fail.  The persisted value is the
   pair of rawKind and store (store is <<>> unless rawKind is "array"); mode
   says how the engine behaves during one call: "ok", "readThrows" (getItem
   throws) or "writeThrows" (setItem and removeItem throw). *)

RawKinds == {"array", "missing", "unparseable", "notArray", "badElement"}
EngineModes == {"ok", "readThrows", "writeThrows"}

\* how a block of code completes: normally with a value, or by throwing
Normal(v) == [raised |-> FALSE, value |-> v]
Thrown == [raised |-> TRUE, value |-> <<>>]

\* a try statement without its catch clause
Rethrow(c, fallback) == c

\* try { c } catch(e){ return fallback }
TryCatch(c, fallback) == IF c.raised THEN Normal(fallback) ELSE c

\* lines 142-147: getItem may throw; a missing key and a non-array give [];
\* JSON.parse throws on an unparseable value; m.role throws on a null element
loadHistoryBody(mode, kind, st) ==
  IF mode = "readThrows" THEN Thrown
  ELSE IF kind = "missing" THEN Normal(<<>>)
  ELSE IF kind = "unparseable" THEN Thrown
  ELSE IF kind = "notArray" THEN Normal(<<>>)
  ELSE IF kind = "badElement" THEN Thrown
  ELSE Normal(loadHistory(st))

\* loadHistory() on the engine
loadHistoryOn(mode, kind, st) == TryCatch(loadHistoryBody(mode, kind, st), <<>>)

\* the persisted value after an operation, and how the operation completed
Outcome(c, kind, st) == [raised |-> c.raised, value |-> c.value, kind |-> kind, st |-> st]

\* saveHistory(hist) on the engine: setItem may throw
saveHistoryOn(mode, kind, st, hist) ==
  LET body == IF mode = "writeThrows" THEN Thrown ELSE Normal(<<>>)
      done == TryCatch(body, <<>>)
  IN  IF body.raised
      THEN Outcome(done, kind, st)
      ELSE Outcome(done, "array", saveHistory(hist))

\* addMessageToHistory(role, text) on the engine
addMessageToHistoryOn(mode, kind, st, role, text) ==
  IF role = "" \/ text = NullText
  THEN Outcome(Normal(<<>>), kind, st)
  ELSE LET cur == loadHistoryOn(mode, kind, st)
       IN  IF cur.raised
           THEN Outcome(TryCatch(cur, <<>>), kind, st)
           ELSE saveHistoryOn(mode, kind, st, PushedHistory(cur.value, role, text))

\* clearHistory() on the engine: removeItem may throw
clearHistoryOn(mode, kind, st) ==
  LET body == IF mode = "writeThrows" THEN Thrown ELSE Normal(<<>>)
      done == TryCatch(body, <<>>)
  IN  IF body.raised
      THEN Outcome(done, kind, st)
      ELSE Outcome(done, "missing", clearHistory(st))

\* lastCall: the operation, its arguments, the engine's mode, the persisted
\* value before it, whether it raised and what it returned
NoCall == [op |-> "none", mode |-> "ok", role |-> "", text |-> NullText, hist |-> <<>>,
           before |-> <<>>, beforeKind |-> "array", raised |-> FALSE, value |-> <<>>]
Call(op, mode, role, text, hist, o) ==
  [op |-> op, mode |-> mode, role |-> role, text |-> text, hist |-> hist,
   before |-> store, beforeKind |-> rawKind, raised |-> o.raised, value |-> o.value]

-----------------------------------------------------------------------------
(* JSON values: a value carries its type; a string carries its content and its
   length; an object is the sequence of its key-value pairs, in key order *)

JUndef == [t |-> "undefined"]
JNull == [t |-> "null"]
JNum(n) == [t |-> "number", n |-> n]
JStr(str, n) == [t |-> "string", s |-> str, len |-> n]
JArr(items) == [t |-> "array", items |-> items]
JObj(kv) == [t |-> "object", kv |-> kv]
KV(k, v) == [k |-> k, v |-> v]

\* !v is false
Truthy(v) ==
  CASE v.t \in {"undefined", "null"} -> FALSE
    [] v.t = "number" -> v.n # 0
    [] v.t = "string" -> v.len > 0
    [] OTHER -> TRUE

\* v.key for a v that is neither null nor undefined
Prop(v, key) ==
  IF v.t = "object" /\ \E i \in 1..Len(v.kv) : v.kv[i].k = key
  THEN v.kv[CHOOSE i \in 1..Len(v.kv) : v.kv[i].k = key].v
  ELSE JUndef

\* v.key throws a TypeError
PropThrows(v) == v.t \in {"undefined", "null"}

\* Array.isArray(v) && v.length
NonEmptyArray(v) == v.t = "array" /\ Len(v.items) > 0

\* a string whose length is that of its content
Str(str) == JStr(str, Len(str))

\* the decimal digits of a number between 0 and 9
DigitText(n) == <<"0", "1", "2", "3", "4", "5", "6", "7", "8", "9">>[n + 1]

\* String(v); an array is its elements joined by commas, null and undefined
\* elements giving nothing
RECURSIVE StringOf(_)
RECURSIVE JoinItems(_)
StringOf(v) ==
  CASE v.t = "string" -> v
    [] v.t = "number" -> Str(DigitText(v.n))
    [] v.t = "null" -> Str("null")
    [] v.t = "undefined" -> Str("undefined")
    [] v.t = "object" -> Str("[object Object]")
    [] v.t = "array" -> Str(JoinItems(v.items))

JoinItems(items) ==
  IF items = <<>> THEN ""
  ELSE LET first == IF Head(items).t \in {"null", "undefined"} THEN ""
                    ELSE StringOf(Head(items)).s
       IN  IF Len(items) = 1 THEN first
           ELSE first \o "," \o JoinItems(Tail(items))

-----------------------------------------------------------------------------
(* The relay: the serverless handler of lines 5-104 *)

\* process.env.RATE_LIMIT_MAX and process.env.RATE_LIMIT_WINDOW of the model's
\* environment, the number of requests of any kind, the number of requests
\* when only the rate limiter is exercised, and the last clock value
RATE_LIMIT_MAX == 1
RATE_LIMIT_WINDOW == 1
MaxRequests == 2
MaxRateRequests == 4
MaxTime == 3

\* the client's debug flag
DEBUG_SHOW_ERRORS == TRUE

MaxContents == 10
MaxPartText == 8000

Addresses == {"10.0.0.1", "10.0.0.2"}
Origins == {"https://app.example", "https://other.example"}
\* the origins of ALLOWED_ORIGINS when it is set
AllowedOrigins == {"https://app.example"}

NoEntry == [present |-> FALSE, count |-> 0, reset |-> 0]

\* lines 43-48: the entry of ip after this request has been counted
CountRequest(map, ip, t) ==
  LET entry == IF ~map[ip].present \/ t > map[ip].reset
               THEN [present |-> TRUE, count |-> 0, reset |-> t + RATE_LIMIT_WINDOW]
               ELSE map[ip]
  IN  [entry EXCEPT !.count = @ + 1]

\* lines 68-75: the loops over contents and parts; "ok", the message of the
\* rejection, or "throw" when a property of null is read; the length tested is
\* String(p.text || '').length
RECURSIVE CheckParts(_)
CheckParts(parts) ==
  IF parts = <<>> THEN "ok"
  ELSE IF PropThrows(Head(parts)) THEN "throw"
  ELSE IF Truthy(Prop(Head(parts), "text"))
          /\ StringOf(Prop(Head(parts), "text")).len > MaxPartText
  THEN "Bad request: message too long"
  ELSE CheckParts(Tail(parts))

RECURSIVE CheckContents(_)
CheckContents(items) ==
  IF items = <<>> THEN "ok"
  ELSE IF PropThrows(Head(items)) THEN "throw"
  ELSE LET parts == Prop(Head(items), "parts")
           here == IF ~Truthy(parts) \/ parts.t # "array" THEN "ok"
                   ELSE CheckParts(parts.items)
       IN  IF here # "ok" THEN here ELSE CheckContents(Tail(items))

\* a validation that accepts everything that is an object
ValidateBodyLax(body) ==
  IF ~Truthy(body) \/ body.t \notin {"object", "array"}
  THEN "Bad request: missing JSON body"
  ELSE "ok"

\* lines 57-79: payload validation; "ok" or the error of the 400 answer
ValidateBody(body) ==
  IF ~Truthy(body) \/ body.t \notin {"object", "array"}
  THEN "Bad request: missing JSON body"
  ELSE LET entries == Prop(body, "contents")
       IN  IF entries.t # "array" \/ Len(entries.items) = 0
              \/ Len(entries.items) > MaxContents
           THEN "Bad request: invalid contents"
           ELSE LET scan == CheckContents(entries.items)
                IN  IF scan = "throw" THEN "Bad request" ELSE scan

\* what the upstream API does with a forwarded request: it answers, or the
\* fetch throws
Upstream(status, body) == [threw |-> FALSE, status |-> status, body |-> body]
UpstreamThrows == [threw |-> TRUE, status |-> 0, body |-> ""]
UpstreamOutcomes ==
  { Upstream(200, "upstream reply"), Upstream(429, "upstream quota detail"),
    Upstream(503, "upstream overloaded detail"), UpstreamThrows }

NoRequest == [method |-> "", origin |-> "", ip |-> "", body |-> JUndef]
Request(method, origin, ip, body) ==
  [method |-> method, origin |-> origin, ip |-> ip, body |-> body]

\* an answer of the relay; called: fetch(googleUrl, ...) was called; credential:
\* the x-goog-api-key header carried the key; forwarded: the body that was sent
Answer(status, body, retryAfter, called, credential, forwarded, up) ==
  [status |-> status, body |-> body, retryAfter |-> retryAfter, called |-> called,
   credential |-> credential, forwarded |-> forwarded, up |-> up]

\* a rejection that calls the upstream API all the same
RejectedAfterCall(status, body) ==
  Answer(status, body, -1, TRUE, TRUE, JUndef, UpstreamThrows)

\* return res.status(status).json({ error: body }) before the upstream fetch
Rejected(status, body) == Answer(status, body, -1, FALSE, FALSE, JUndef, UpstreamThrows)

\* line 87: body: JSON.stringify(req.body)
ForwardedBody(body) == body

\* a relay that mirrors the upstream body of a failure
MirrorVerbatim(up) == up.body

\* lines 94-98: the body returned for the upstream answer up
Mirror(up) == IF up.status >= 200 /\ up.status <= 299 THEN up.body ELSE "Upstream API error"

\* a limiter that lets the request at the limit's edge through and one more
LimitedOffByOne(entry) == entry.count > RATE_LIMIT_MAX + 1

\* line 49: entry.count > RATE_LIMIT_MAX
Limited(entry) == entry.count > RATE_LIMIT_MAX

\* lines 5-104: the answer to req when the upstream API, if called, does up,
\* whether the rate limiter counted the request and whether it limited it
handler(req, up) ==
  LET entry == CountRequest(rateMap, req.ip, now)
      valid == ValidateBody(req.body)
  IN  IF req.method # "POST"
      THEN [answer |-> Rejected(405, "Method not allowed"), counted |-> FALSE, limited |-> FALSE]
      ELSE IF ~env.apiKey
      THEN [answer |-> Rejected(500, "Server missing GEMINI_API_KEY environment variable"),
            counted |-> FALSE, limited |-> FALSE]
      ELSE IF env.allowList /\ req.origin \notin AllowedOrigins
      THEN [answer |-> Rejected(403, "Origin not allowed"), counted |-> FALSE, limited |-> FALSE]
      ELSE IF Limited(entry)
      THEN [answer |-> Answer(429, "Rate limit exceeded", entry.reset - now, FALSE, FALSE,
                              JUndef, UpstreamThrows),
            counted |-> TRUE, limited |-> TRUE]
      ELSE IF valid # "ok"
      THEN [answer |-> Rejected(400, valid), counted |-> TRUE, limited |-> FALSE]
      ELSE IF up.threw
      THEN [answer |-> Answer(500, "Proxy request failed", -1, TRUE, TRUE,
                              ForwardedBody(req.body), up),
            counted |-> TRUE, limited |-> FALSE]
      ELSE [answer |-> Answer(up.status, Mirror(up), -1, TRUE, TRUE,
                              ForwardedBody(req.body), up),
            counted |-> TRUE, limited |-> FALSE]

NoExchange == [req |-> NoRequest, answer |-> Rejected(0, ""), at |-> 0]

RelayIdle ==
  /\ env = [apiKey |-> TRUE, allowList |-> FALSE]
  /\ now = 0
  /\ rateMap = [ip \in Addresses |-> NoEntry]
  /\ exchange = NoExchange
  /\ rateLog = <<>>
  /\ nRequests = 0

-----------------------------------------------------------------------------
(* Reply texts: extractTextFromResponse *)

\* v[0]: the first element of an array, the property "0" of an object, the
\* first character of a string
First(v) ==
  IF v.t = "array" THEN (IF Len(v.items) > 0 THEN v.items[1] ELSE JUndef)
  ELSE IF v.t = "object" THEN Prop(v, "0")
  ELSE IF v.t = "string" /\ v.len > 0 THEN Str(SubSeq(v.s, 1, 1))
  ELSE JUndef

\* v?.key and v?.[0]
OptProp(v, key) == IF PropThrows(v) THEN JUndef ELSE Prop(v, key)
OptFirst(v) == IF PropThrows(v) THEN JUndef ELSE First(v)

\* str.trim(), white space being the space character
RECURSIVE TrimText(_)
TrimText(str) ==
  IF str = "" THEN ""
  ELSE IF SubSeq(str, 1, 1) = " " THEN TrimText(SubSeq(str, 2, Len(str)))
  ELSE IF SubSeq(str, Len(str), Len(str)) = " " THEN TrimText(SubSeq(str, 1, Len(str) - 1))
  ELSE str

\* typeof v === 'string' && v.trim()
NonBlankString(v) == v.t = "string" /\ TrimText(v.s) # ""

\* JSON.stringify(v) for a v that is not undefined: a property whose value is
\* undefined is left out, an element that is undefined is written null
RECURSIVE Stringify(_)
RECURSIVE StringifyItems(_)
RECURSIVE StringifyProps(_)
Stringify(v) ==
  CASE v.t = "string" -> "\"" \o v.s \o "\""
    [] v.t = "number" -> DigitText(v.n)
    [] v.t \in {"null", "undefined"} -> "null"
    [] v.t = "array" -> "[" \o StringifyItems(v.items) \o "]"
    [] v.t = "object" ->
         "{" \o StringifyProps(SelectSeq(v.kv, LAMBDA p : p.v.t # "undefined")) \o "}"

StringifyItems(items) ==
  IF items = <<>> THEN ""
  ELSE IF Len(items) = 1 THEN Stringify(Head(items))
  ELSE Stringify(Head(items)) \o "," \o StringifyItems(Tail(items))

StringifyProps(kv) ==
  IF kv = <<>> THEN ""
  ELSE LET first == "\"" \o Head(kv).k \o "\":" \o Stringify(Head(kv).v)
       IN  IF Len(kv) = 1 THEN first ELSE first \o "," \o StringifyProps(Tail(kv))

\* a block that ran to its end without a return statement
NoReturn == [t |-> "no return"]

\* lines 364-371: the candidates matcher
candidatesMatcher(raw) ==
  LET candidates == Prop(raw, "candidates")
  IN  IF ~NonEmptyArray(candidates) THEN Normal(NoReturn)
      ELSE LET cand == candidates.items[1]
               content == Prop(cand, "content")
               parts == Prop(content, "parts")
               inContent == Truthy(cand) /\ Truthy(content)
           IN  IF inContent /\ NonEmptyArray(parts) /\ PropThrows(parts.items[1])
               THEN Thrown
               ELSE IF inContent /\ NonEmptyArray(parts)
                       /\ Truthy(Prop(parts.items[1], "text"))
               THEN Normal(StringOf(Prop(parts.items[1], "text")))
               ELSE IF inContent /\ Prop(content, "text").t = "string"
               THEN Normal(Prop(content, "text"))
               ELSE IF PropThrows(cand) THEN Thrown
               ELSE IF Prop(cand, "text").t = "string" THEN Normal(Prop(cand, "text"))
               ELSE Normal(NoReturn)

\* lines 372-378: the output matcher
outputMatcher(raw) ==
  LET output == Prop(raw, "output")
  IN  IF ~NonEmptyArray(output) THEN Normal(NoReturn)
      ELSE LET out == output.items[1]
               content == Prop(out, "content")
           IN  IF ~Truthy(out) THEN Normal(NoReturn)
               ELSE IF content.t = "string" THEN Normal(content)
               ELSE IF NonEmptyArray(content) /\ PropThrows(content.items[1]) THEN Thrown
               ELSE IF NonEmptyArray(content) /\ Truthy(Prop(content.items[1], "text"))
               THEN Normal(Prop(content.items[1], "text"))
               ELSE Normal(NoReturn)

\* line 379: raw?.candidates?.[0]?.content?.parts?.[0]?.text
chainedText(raw) ==
  OptProp(OptFirst(OptProp(OptProp(OptFirst(OptProp(raw, "candidates")), "content"),
                           "parts")), "text")

\* lines 381-398: the first non-blank string named text or content, depth
\* first; the values of a JSON document share no object, so seen holds none
\* of the objects walk is called with
RECURSIVE walk(_)
RECURSIVE walkEach(_)
walk(o) ==
  IF ~Truthy(o) \/ o.t \notin {"object", "array"} THEN JNull
  ELSE IF NonBlankString(Prop(o, "text")) THEN Prop(o, "text")
  ELSE IF NonBlankString(Prop(o, "content")) THEN Prop(o, "content")
  ELSE IF o.t = "array" THEN walkEach(o.items)
  ELSE walkEach([i \in 1..Len(o.kv) |-> o.kv[i].v])

walkEach(values) ==
  IF values = <<>> THEN JNull
  ELSE LET r == walk(Head(values))
       IN  IF Truthy(r) THEN r ELSE walkEach(Tail(values))

\* lines 364-400: the body of the try statement
extractBody(raw) ==
  LET first == candidatesMatcher(raw)
      second == outputMatcher(raw)
      found == walk(raw)
  IN  IF first.raised \/ first.value # NoReturn THEN first
      ELSE IF second.raised \/ second.value # NoReturn THEN second
      ELSE IF Truthy(chainedText(raw)) THEN Normal(chainedText(raw))
      ELSE IF Truthy(found) THEN Normal(found)
      ELSE Normal(NoReturn)

\* an extractor without its last resort
extractWithoutDump(raw) ==
  IF ~Truthy(raw) THEN JNull
  ELSE IF raw.t = "string" THEN raw
  ELSE LET body == TryCatch(extractBody(raw), NoReturn)
       IN  IF body.value # NoReturn THEN body.value ELSE JNull

\* lines 360-403
extractTextFromResponse(raw) ==
  IF ~Truthy(raw) THEN JNull
  ELSE IF raw.t = "string" THEN raw
  ELSE LET body == TryCatch(extractBody(raw), NoReturn)
       IN  IF body.value # NoReturn THEN body.value ELSE Str(Stringify(raw))

\* lines 494-502: the fragments one candidate contributes; no property is
\* read of null or undefined, so the try block never throws
RECURSIVE partTexts(_)
partTexts(items) ==
  IF items = <<>> THEN <<>>
  ELSE (IF Truthy(Head(items)) /\ Truthy(Prop(Head(items), "text"))
        THEN <<StringOf(Prop(Head(items), "text")).s>> ELSE <<>>)
         \o partTexts(Tail(items))

candidateTexts(c) ==
  LET content == Prop(c, "content")
  IN  IF ~(Truthy(c) /\ Truthy(content)) THEN <<>>
      ELSE IF Prop(content, "parts").t = "array" THEN partTexts(Prop(content, "parts").items)
      ELSE IF Prop(content, "text").t = "string" THEN <<Prop(content, "text").s>>
      ELSE <<>>

\* lines 493-503: the fragments of every candidate, in candidate order
RECURSIVE mergeTexts(_)
mergeTexts(candidates) ==
  IF candidates = <<>> THEN <<>>
  ELSE candidateTexts(Head(candidates)) \o mergeTexts(Tail(candidates))

\* parts.join('\n\n')
RECURSIVE JoinBlankLine(_)
JoinBlankLine(parts) ==
  IF Len(parts) = 1 THEN Head(parts)
  ELSE Head(parts) \o "\n\n" \o JoinBlankLine(Tail(parts))

\* line 491: the condition of the merge step
mergeRuns(raw, aiText) ==
  ~Truthy(aiText) /\ Truthy(raw) /\ NonEmptyArray(Prop(raw, "candidates"))

\* lines 490-505: the extracted text, whether the merge step ran, and aiText
\* after it
normaliseReply(raw) ==
  LET value == extractTextFromResponse(raw)
      merged == mergeRuns(raw, value)
      parts == IF merged THEN mergeTexts(Prop(raw, "candidates").items) ELSE <<>>
  IN  [value |-> value, done |-> TRUE, merged |-> merged,
       aiText |-> IF parts # <<>> THEN Str(JoinBlankLine(parts)) ELSE value]

NotExtracted == [value |-> JUndef, done |-> FALSE, merged |-> FALSE, aiText |-> JUndef]

ExtractIdle ==
  /\ rawReply = JUndef
  /\ replyText = NotExtracted

\* script.js before any submission: no bubble carries dataset.retried, no
\* resubmission timer is pending
ScriptIdle == [retried |-> {}, timer |-> FALSE, auto |-> 0]

-----------------------------------------------------------------------------
(* Error messages: a string is the sequence of its characters ('-' stands for
   the dash of `HTTP ${resp.status} - ${txt}`) *)

\* "HTTP 429 - busy"
MsgTooMany ==
  <<"H", "T", "T", "P", " ", "4", "2", "9", " ", "-", " ", "b", "u", "s", "y">>
\* "HTTP 503 - RESOURCE_EXHAUSTED"
MsgResourceUpper ==
  <<"H", "T", "T", "P", " ", "5", "0", "3", " ", "-", " ", "R", "E", "S", "O", "U", "R", "C", "E", "_", "E", "X", "H", "A", "U", "S", "T", "E", "D">>
\* "HTTP 503 - Resource_Exhausted"
MsgResourceMixed ==
  <<"H", "T", "T", "P", " ", "5", "0", "3", " ", "-", " ", "R", "e", "s", "o", "u", "r", "c", "e", "_", "E", "x", "h", "a", "u", "s", "t", "e", "d">>
\* "HTTP 503 - overloaded"
MsgOverloaded ==
  <<"H", "T", "T", "P", " ", "5", "0", "3", " ", "-", " ", "o", "v", "e", "r", "l", "o", "a", "d", "e", "d">>
\* "HTTP 500 - Upstream API error"
MsgUpstream ==
  <<"H", "T", "T", "P", " ", "5", "0", "0", " ", "-", " ", "U", "p", "s", "t", "r", "e", "a", "m", " ", "A", "P", "I", " ", "e", "r", "r", "o", "r">>
\* "Failed to fetch"
MsgNetwork ==
  <<"F", "a", "i", "l", "e", "d", " ", "t", "o", " ", "f", "e", "t", "c", "h">>
\* "No response from model"
MsgNoResponse ==
  <<"N", "o", " ", "r", "e", "s", "p", "o", "n", "s", "e", " ", "f", "r", "o", "m", " ", "m", "o", "d", "e", "l">>
\* "HTTP 500 - Aborted"
MsgAbortedText ==
  <<"H", "T", "T", "P", " ", "5", "0", "0", " ", "-", " ", "A", "b", "o", "r", "t", "e", "d">>
\* "The user aborted a request."
MsgUserAbort ==
  <<"T", "h", "e", " ", "u", "s", "e", "r", " ", "a", "b", "o", "r", "t", "e", "d", " ", "a", " ", "r", "e", "q", "u", "e", "s", "t", ".">>

SigHttp429 == <<"H", "T", "T", "P", " ", "4", "2", "9">>
SigRateLimit == <<"r", "a", "t", "e", " ", "l", "i", "m", "i", "t">>
SigQuota == <<"q", "u", "o", "t", "a">>
SigResourceU == <<"r", "e", "s", "o", "u", "r", "c", "e", "_", "e", "x", "h", "a", "u", "s", "t", "e", "d">>
SigResourceS == <<"r", "e", "s", "o", "u", "r", "c", "e", " ", "e", "x", "h", "a", "u", "s", "t", "e", "d">>
SigOverload == <<"o", "v", "e", "r", "l", "o", "a", "d">>
SigOverloaded == <<"o", "v", "e", "r", "l", "o", "a", "d", "e", "d">>
SigAbort == <<"a", "b", "o", "r", "t">>

UpperCase ==
  <<"A", "B", "C", "D", "E", "F", "G", "H", "I", "J", "K", "L", "M", "N", "O", "P", "Q", "R", "S", "T", "U", "V", "W", "X", "Y", "Z">>
LowerCase ==
  <<"a", "b", "c", "d", "e", "f", "g", "h", "i", "j", "k", "l", "m", "n", "o", "p", "q", "r", "s", "t", "u", "v", "w", "x", "y", "z">>

\* String.prototype.toLowerCase, per character
LowerChar(c) ==
  IF \E i \in 1..Len(UpperCase) : UpperCase[i] = c
  THEN LowerCase[CHOOSE i \in 1..Len(UpperCase) : UpperCase[i] = c]
  ELSE c

toLowerCase(s) == [i \in 1..Len(s) |-> LowerChar(s[i])]

\* String.prototype.includes
includes(s, sub) ==
  \E i \in 0..(Len(s) - Len(sub)) : SubSeq(s, i + 1, i + Len(sub)) = sub

Err(name, message) == [name |-> name, message |-> message]

\* rejection of a fetch whose signal was aborted
AbortErr == Err("AbortError", MsgUserAbort)

\* failures of an attempt whose signal was not aborted: non-2xx answers
\* (`HTTP <status> - <body>`), a network failure, and the falsy reply
OtherErrors ==
  { Err("Error", MsgTooMany), Err("Error", MsgResourceUpper),
    Err("Error", MsgResourceMixed), Err("Error", MsgOverloaded),
    Err("Error", MsgUpstream), Err("TypeError", MsgNetwork),
    Err("Error", MsgNoResponse), Err("Error", MsgAbortedText) }

\* err.name === 'AbortError' || msg.toLowerCase().includes('abort')
IsAbort(err) ==
  err.name = "AbortError" \/ includes(toLowerCase(err.message), SigAbort)

\* isLimit with the case-insensitive tests made case-sensitive
IsLimitCaseSensitive(msg) ==
  \/ includes(msg, SigHttp429)
  \/ includes(msg, SigRateLimit)
  \/ includes(msg, SigQuota)
  \/ includes(msg, SigResourceU)
  \/ includes(msg, SigResourceS)
  \/ includes(msg, SigOverload)
  \/ includes(msg, SigOverloaded)

\* const isLimit = ...
IsLimit(msg) ==
  \/ includes(msg, SigHttp429)
  \/ includes(toLowerCase(msg), SigRateLimit)
  \/ includes(toLowerCase(msg), SigQuota)
  \/ includes(toLowerCase(msg), SigResourceU)
  \/ includes(toLowerCase(msg), SigResourceS)
  \/ includes(toLowerCase(msg), SigOverload)
  \/ includes(toLowerCase(msg), SigOverloaded)

\* the branch the catch block takes for err
Classify(err) ==
  IF IsAbort(err) THEN "cancelled"
  ELSE IF IsLimit(err.message) THEN "capacity"
  ELSE "other"

\* a string as the sequence of its characters
Chars(str) == [i \in 1..Len(str) |-> SubSeq(str, i, i)]

\* lines 346-348: new Error(`HTTP ${resp.status} - ${txt}`) for a status of
\* three digits
HttpError(status, txt) ==
  Err("Error", Chars("HTTP " \o DigitText(status \div 100) \o DigitText((status \div 10) % 10)
                     \o DigitText(status % 10) \o " - " \o txt))

\* res.status(...).json({ error }), and the body of line 52
ErrorJson(message) == "{\"error\":\"" \o message \o "\"}"
RateLimitJson(retryAfter) ==
  "{\"error\":\"Rate limit exceeded\",\"retry_after_seconds\":" \o DigitText(retryAfter) \o "}"

\* the errors sendMessageToGemini throws for the answers of the relay that
\* are not ok
RelayErrors ==
  { HttpError(405, ErrorJson("Method not allowed")),
    HttpError(500, ErrorJson("Server missing GEMINI_API_KEY environment variable")),
    HttpError(403, ErrorJson("Origin not allowed")),
    HttpError(400, ErrorJson("Bad request: missing JSON body")),
    HttpError(400, ErrorJson("Bad request: invalid contents")),
    HttpError(400, ErrorJson("Bad request: message too long")),
    HttpError(400, ErrorJson("Bad request")),
    HttpError(500, ErrorJson("Proxy request failed")),
    HttpError(429, ErrorJson("Upstream API error")),
    HttpError(503, ErrorJson("Upstream API error")) }
    \cup { HttpError(429, RateLimitJson(n)) : n \in 0..RATE_LIMIT_WINDOW }

\* Classify, tabulated over the errors of the model
Classification == [e \in OtherErrors \cup {AbortErr} \cup RelayErrors |-> Classify(e)]

\* fallback search that starts over at the head of the list
NextFallbackFromStart(idx, att) ==
  LET cands == { c \in ModelIndices : c \notin att }
  IN  IF cands = {} THEN -1
      ELSE CHOOSE c \in cands : \A d \in cands : c <= d

\* for(let cand = attemptIndex + 1; cand < modelChoices.length; cand++) ...
NextFallback(idx, att) ==
  LET cands == { c \in ModelIndices : c > idx /\ c \notin att }
  IN  IF cands = {} THEN -1
      ELSE CHOOSE c \in cands : \A d \in cands : c <= d

-----------------------------------------------------------------------------
(* The cascade: the submit handler of the form, one invocation per run *)

ActivePcs == {"start", "issue", "await", "backoff", "reveal"}
Active == { r \in Runs : pc[r] \in ActivePcs }

\* lastEvent: the run whose attempt the latest step settled, how it settled,
\* and that run's tries, its disturbed mark and whether abort() had been called
\* on its controller, as that step found them; or the run that just sent a
\* request (kind "issued") and the body it sent
NoBody == [contents |-> <<>>, metadata |-> [model |-> "", preset |-> ""]]
NoEvent == [run |-> 0, kind |-> "none", err |-> Err("", <<>>), tries |-> <<>>,
            disturbed |-> FALSE, aborted |-> FALSE, body |-> NoBody]
Event(r, kind, err) == [run |-> r, kind |-> kind, err |-> err, tries |-> tries[r],
                        disturbed |-> r \in disturbed, aborted |-> abortCount[r] > 0,
                        body |-> NoBody]

\* modelChoices[i].id
modelChoices ==
  <<"gemini-2.5-pro", "gemini-2.5-flash", "gemini-2.5-flash-lite", "gemini-2.0-flash",
    "gemini-2.0-flash-lite">>
ModelId(i) == modelChoices[i + 1]

\* let selectedPreset = 'balanced' (never assigned again)
selectedPreset == "balanced"

\* line 486: const rawBody = { contents: baseContents, metadata: { model, preset } }
RawBody(r) ==
  [contents |-> contents[r],
   metadata |-> [model |-> ModelId(attemptIndex[r]), preset |-> selectedPreset]]

\* a mapping that passes the stored role through
RECURSIVE MapContentsKeepRole(_)
MapContentsKeepRole(hist) ==
  IF hist = <<>> THEN <<>>
  ELSE <<[role |-> Head(hist).role, text |-> Head(hist).text]>>
         \o MapContentsKeepRole(Tail(hist))

\* baseContents: the loaded history with assistant mapped to model, then the new text
RECURSIVE MapContents(_)
MapContents(hist) ==
  IF hist = <<>> THEN <<>>
  ELSE <<[role |-> IF Head(hist).role = "assistant" THEN "model" ELSE "user",
          text |-> Head(hist).text]>> \o MapContents(Tail(hist))

BaseContents(hist, text) == Append(MapContents(hist), [role |-> "user", text |-> text])

\* controller.abort() on the controller currentAbortController refers to
AbortCurrent ==
  IF currentAbortController # 0
  THEN [abortCount EXCEPT ![currentAbortController] = @ + 1]
  ELSE abortCount

\* two turns within both caps, left by an earlier session
ShortTranscript == <<Turn("user", Text(0, 1)), Turn("assistant", Text(0, 1))>>

Init ==
  /\ store \in {<<>>, ShortTranscript}
  /\ nAppends = 0
  /\ rawKind = "array"
  /\ lastCall = NoCall
  /\ selectedModelIndex = DefaultModelIndex
  /\ currentAbortController = 0
  /\ sending = FALSE
  /\ running = 0
  /\ nextRun = 0
  /\ nUserActions = 0
  /\ pc = [r \in Runs |-> "idle"]
  /\ attemptIndex = [r \in Runs |-> -1]
  /\ attempted = [r \in Runs |-> {}]
  /\ contents = [r \in Runs |-> <<>>]
  /\ abortCount = [r \in Runs |-> 0]
  /\ tries = [r \in Runs |-> <<>>]
  /\ disturbed = {}
  /\ stoppedInBackoff = {}
  /\ lastEvent = NoEvent
  /\ RelayIdle
  /\ ExtractIdle
  /\ script = ScriptIdle

\* a submission that does not persist the user turn
PersistUserNot(st, text) == st

\* line 471: addMessageToHistory('user', text)
PersistUser(st, text) == addMessageToHistory(st, "user", text)

\* lines 452-471: a non-empty text is submitted; the history is loaded, the
\* request contents are built and the user turn is persisted
Submit(r) ==
  /\ running = 0
  /\ r = nextRun + 1
  /\ pc[r] = "idle"
  /\ LET text == Text(r, 1)
     IN  /\ contents' = [contents EXCEPT ![r] = BaseContents(loadHistory(store), text)]
         /\ store' = PersistUser(store, text)
  /\ pc' = [pc EXCEPT ![r] = "start"]
  /\ running' = r
  /\ nextRun' = r
  /\ lastEvent' = NoEvent
  /\ UNCHANGED <<relayVars, extractVars, script>>
  /\ UNCHANGED <<nAppends, rawKind, lastCall, sessionVars, nUserActions, attemptIndex, attempted,
                 abortCount, tries, disturbed, stoppedInBackoff>>

\* lines 472-477: the run's locals, the sending mark, and the abort of the
\* controller the session holds
StartRun(r) ==
  /\ running = r
  /\ pc[r] = "start"
  /\ attempted' = [attempted EXCEPT ![r] = {}]
  /\ attemptIndex' = [attemptIndex EXCEPT ![r] = selectedModelIndex]
  /\ sending' = TRUE
  /\ abortCount' = AbortCurrent
  /\ currentAbortController' = 0
  /\ pc' = [pc EXCEPT ![r] = "issue"]
  /\ lastEvent' = NoEvent
  /\ UNCHANGED <<relayVars, extractVars, script>>
  /\ UNCHANGED <<storeVars, selectedModelIndex, running, nextRun, nUserActions,
                 contents, tries, disturbed, stoppedInBackoff>>

\* an iteration that leaves the visible selection alone
FollowSelectionNot(r) == selectedModelIndex

\* lines 480-483: the visible selection follows the tier of the attempt
FollowSelection(r) ==
  IF attemptIndex[r] # selectedModelIndex THEN attemptIndex[r] ELSE selectedModelIndex

\* lines 478-488: one iteration of the loop up to the request: the tier is
\* marked attempted, the selection follows it, a new controller becomes the
\* session's controller and the request is sent
Issue(r) ==
  /\ running = r
  /\ pc[r] = "issue"
  /\ attempted' = [attempted EXCEPT ![r] = @ \cup {attemptIndex[r]}]
  /\ selectedModelIndex' = FollowSelection(r)
  /\ disturbed' = IF selectedModelIndex' # selectedModelIndex
                  THEN (disturbed \cup Active) \ {r}
                  ELSE disturbed \ {r}
  /\ abortCount' = [abortCount EXCEPT ![r] = 0]
  /\ currentAbortController' = r
  /\ tries' = [tries EXCEPT ![r] = Append(@, attemptIndex[r])]
  /\ stoppedInBackoff' = stoppedInBackoff \ {r}
  /\ pc' = [pc EXCEPT ![r] = "await"]
  /\ running' = 0
  /\ lastEvent' = [NoEvent EXCEPT !.run = r, !.kind = "issued", !.body = RawBody(r)]
  /\ UNCHANGED <<relayVars, extractVars, script>>
  /\ UNCHANGED <<storeVars, sending, nextRun, nUserActions, attemptIndex, contents>>

\* the end of the handler: the finally blocks of lines 581-587; the locals
\* of the invocation are gone
Finish(r, state) ==
  /\ pc' = [pc EXCEPT ![r] = state]
  /\ currentAbortController' = 0
  /\ sending' = FALSE
  /\ attemptIndex' = [attemptIndex EXCEPT ![r] = -1]
  /\ attempted' = [attempted EXCEPT ![r] = {}]
  /\ contents' = [contents EXCEPT ![r] = <<>>]
  /\ abortCount' = [abortCount EXCEPT ![r] = 0]
  /\ tries' = [tries EXCEPT ![r] = <<>>]
  /\ disturbed' = disturbed \ {r}
  /\ stoppedInBackoff' = stoppedInBackoff \ {r}

\* lines 488-509: the reply arrived and is truthy; it is normalised, cleaned
\* and its reveal begins
FetchOk(r) ==
  /\ running = 0
  /\ pc[r] = "await"
  /\ abortCount[r] = 0
  /\ pc' = [pc EXCEPT ![r] = "reveal"]
  /\ lastEvent' = Event(r, "ok", Err("", <<>>))
  /\ UNCHANGED <<relayVars, extractVars, script>>
  /\ UNCHANGED <<storeVars, sessionVars, running, nextRun, nUserActions, attemptIndex,
                 attempted, contents, abortCount, tries, disturbed, stoppedInBackoff>>

\* a reveal that gives the reply up when abort() was called meanwhile
RevealDoneUnlessStopped(r) ==
  /\ running = 0
  /\ pc[r] = "reveal"
  /\ store' = IF abortCount[r] > 0 THEN store
              ELSE addMessageToHistory(store, "assistant", Text(r, 1))
  /\ Finish(r, IF abortCount[r] > 0 THEN "cancelled" ELSE "succeeded")
  /\ lastEvent' = Event(r, "revealed", Err("", <<>>))
  /\ UNCHANGED <<relayVars, extractVars, script>>
  /\ UNCHANGED <<nAppends, rawKind, lastCall, selectedModelIndex, running, nextRun, nUserActions>>

\* lines 509-543, 581-587: the reveal is over; the assistant turn is persisted
RevealDone(r) ==
  /\ running = 0
  /\ pc[r] = "reveal"
  /\ store' = addMessageToHistory(store, "assistant", Text(r, 1))
  /\ Finish(r, "succeeded")
  /\ lastEvent' = Event(r, "revealed", Err("", <<>>))
  /\ UNCHANGED <<relayVars, extractVars, script>>
  /\ UNCHANGED <<nAppends, rawKind, lastCall, selectedModelIndex, running, nextRun, nUserActions>>

\* a catch block that treats an abort like a reply
CatchAbortAsReply(r, err) ==
  IF Classification[err] = "cancelled"
  THEN /\ store' = addMessageToHistory(store, "assistant", Text(r, 1))
       /\ Finish(r, "succeeded")
       /\ UNCHANGED selectedModelIndex
  ELSE /\ Finish(r, "failed")
       /\ UNCHANGED <<store, selectedModelIndex>>

\* a catch block that clears the transcript when the attempt failed
CatchClearsStore(r, err) ==
  IF Classification[err] = "cancelled"
  THEN /\ Finish(r, "cancelled")
       /\ UNCHANGED <<store, selectedModelIndex>>
  ELSE /\ Finish(r, "failed")
       /\ store' = clearHistory(store)
       /\ UNCHANGED selectedModelIndex

\* lines 544-587: the catch block for err, and the finally blocks when the
\* loop is left
Catch(r, err) ==
  LET found == NextFallback(attemptIndex[r], attempted[r])
  IN  CASE Classification[err] = "cancelled" ->
             /\ Finish(r, "cancelled")
             /\ UNCHANGED <<store, selectedModelIndex>>
        [] Classification[err] = "capacity" /\ found >= 0 ->
             /\ attemptIndex' = [attemptIndex EXCEPT ![r] = found]
             /\ pc' = [pc EXCEPT ![r] = "backoff"]
             /\ UNCHANGED <<store, sessionVars, attempted, contents, abortCount,
                            tries, disturbed, stoppedInBackoff>>
        [] Classification[err] = "capacity" /\ found < 0 ->
             /\ Finish(r, "exhausted")
             /\ UNCHANGED <<store, selectedModelIndex>>
        [] OTHER ->
             /\ Finish(r, "failed")
             /\ UNCHANGED <<store, selectedModelIndex>>

\* the request of a run whose signal was aborted rejects with an AbortError
FetchAborted(r) ==
  /\ running = 0
  /\ pc[r] = "await"
  /\ abortCount[r] > 0
  /\ Catch(r, AbortErr)
  /\ lastEvent' = Event(r, "error", AbortErr)
  /\ UNCHANGED <<relayVars, extractVars, script>>
  /\ UNCHANGED <<nAppends, rawKind, lastCall, running, nextRun, nUserActions>>

\* the request fails, or answers with a falsy reply (line 489), its signal
\* not aborted
FetchFailed(r, err) ==
  /\ running = 0
  /\ pc[r] = "await"
  /\ abortCount[r] = 0
  /\ Catch(r, err)
  /\ lastEvent' = Event(r, "error", err)
  /\ UNCHANGED <<relayVars, extractVars, script>>
  /\ UNCHANGED <<nAppends, rawKind, lastCall, running, nextRun, nUserActions>>

\* lines 562-563, 581-583: the backoff timer fires; `continue` runs the finally
\* block of the attempt and the loop goes round
BackoffDone(r) ==
  /\ running = 0
  /\ pc[r] = "backoff"
  /\ currentAbortController' = 0
  /\ pc' = [pc EXCEPT ![r] = "issue"]
  /\ running' = r
  /\ lastEvent' = NoEvent
  /\ UNCHANGED <<relayVars, extractVars, script>>
  /\ UNCHANGED <<storeVars, selectedModelIndex, sending, nextRun, nUserActions,
                 attemptIndex, attempted, contents, abortCount, tries, disturbed,
                 stoppedInBackoff>>

\* lines 590-598: a click on the send button while it is marked sending
StopClick ==
  /\ running = 0
  /\ sending
  /\ abortCount' = AbortCurrent
  /\ currentAbortController' = 0
  /\ sending' = FALSE
  /\ stoppedInBackoff' = stoppedInBackoff \cup { r \in Runs : pc[r] = "backoff" }
  /\ lastEvent' = NoEvent
  /\ UNCHANGED <<relayVars, extractVars, script>>
  /\ UNCHANGED <<storeVars, selectedModelIndex, running, nextRun, nUserActions, pc,
                 attemptIndex, attempted, contents, tries, disturbed>>

\* lines 651-655, 683-687: the user picks another tier
SelectModel(idx) ==
  /\ running = 0
  /\ nUserActions < MaxUserActions
  /\ idx # selectedModelIndex
  /\ selectedModelIndex' = idx
  /\ nUserActions' = nUserActions + 1
  /\ disturbed' = disturbed \cup Active
  /\ lastEvent' = NoEvent
  /\ UNCHANGED <<relayVars, extractVars, script>>
  /\ UNCHANGED <<storeVars, currentAbortController, sending, running, nextRun, pc,
                 attemptIndex, attempted, contents, abortCount, tries,
                 stoppedInBackoff>>

\* lines 612-617: new chat
NewChat ==
  /\ running = 0
  /\ nUserActions < MaxUserActions
  /\ store' = clearHistory(store)
  /\ nUserActions' = nUserActions + 1
  /\ lastEvent' = NoEvent
  /\ UNCHANGED <<relayVars, extractVars, script>>
  /\ UNCHANGED <<nAppends, rawKind, lastCall, sessionVars, running, nextRun, pc, attemptIndex,
                 attempted, contents, abortCount, tries, disturbed,
                 stoppedInBackoff>>

\* what happens besides submissions
Step ==
  \/ \E r \in Runs : StartRun(r)
  \/ \E r \in Runs : Issue(r)
  \/ \E r \in Runs : FetchOk(r)
  \/ \E r \in Runs : RevealDone(r)
  \/ \E r \in Runs : FetchAborted(r)
  \/ \E r \in Runs, err \in OtherErrors : FetchFailed(r, err)
  \/ \E r \in Runs : BackoffDone(r)
  \/ StopClick
  \/ \E idx \in ModelIndices : SelectModel(idx)
  \/ NewChat

\* up to MaxRuns submissions, overlapping at will
Next ==
  \/ \E r \in 1..MaxRuns : Submit(r)
  \/ Step

Spec == Init /\ [][Next]_vars

\* two submissions more, at most MaxRuns + 1 runs active at a time
NextWide ==
  \/ \E r \in Runs : Cardinality(Active) <= MaxRuns /\ Submit(r)
  \/ Step

\* the wide specification starts from a fresh store
InitFresh == Init /\ store = <<>>

SpecWide == InitFresh /\ [][NextWide]_vars

\* the steps a run takes by itself: the handler's synchronous code, the
\* settling of its request (line 488), its timers (lines 509, 562)
Settle(r) ==
  \/ StartRun(r)
  \/ Issue(r)
  \/ FetchOk(r)
  \/ FetchAborted(r)
  \/ \E err \in OtherErrors : FetchFailed(r, err)
  \/ RevealDone(r)
  \/ BackoffDone(r)

\* submissions at will, a tier picked between runs, stop at any time
NextLive ==
  \/ \E r \in 1..MaxRuns : Submit(r)
  \/ \E r \in Runs : Settle(r)
  \/ StopClick
  \/ \E idx \in ModelIndices : Active = {} /\ SelectModel(idx)

\* the cascade under the event loop: code that can run does run, a timer
\* fires, and every request settles
SpecLive == InitFresh /\ [][NextLive]_vars /\ \A r \in Runs : WF_vars(Settle(r))

-----------------------------------------------------------------------------
(* The store alone: appends with any role and text, from an empty or a
   rehydrated transcript *)

\* a transcript of short alternating turns, one short of the count cap
Rehydrated ==
  [i \in 1..(HISTORY_MAX_MESSAGES - 1) |->
     Turn(IF i % 2 = 1 THEN "user" ELSE "assistant", Text(0, 1))]

RoleArgs == {"user", "assistant", "system", ""}
TextLens == {0, 1, 4000, 8001}
TextArgs == { Text(0, n) : n \in TextLens } \cup {NullText}

InitStore ==
  /\ store \in {<<>>, Rehydrated}
  /\ nAppends = 0
  /\ rawKind = "array"
  /\ lastCall = NoCall
  /\ selectedModelIndex = DefaultModelIndex
  /\ currentAbortController = 0
  /\ sending = FALSE
  /\ running = 0
  /\ nextRun = 0
  /\ nUserActions = 0
  /\ pc = [r \in Runs |-> "idle"]
  /\ attemptIndex = [r \in Runs |-> -1]
  /\ attempted = [r \in Runs |-> {}]
  /\ contents = [r \in Runs |-> <<>>]
  /\ abortCount = [r \in Runs |-> 0]
  /\ tries = [r \in Runs |-> <<>>]
  /\ disturbed = {}
  /\ stoppedInBackoff = {}
  /\ lastEvent = NoEvent
  /\ RelayIdle
  /\ ExtractIdle
  /\ script = ScriptIdle

\* a call of addMessageToHistory(role, text)
AppendOp(role, text) ==
  /\ nAppends < MaxAppends
  /\ store' = addMessageToHistory(store, role, text)
  /\ nAppends' = nAppends + 1
  /\ lastCall' = Call("append", "ok", role, text,
                      IF store' = store /\ (role = "" \/ text = NullText)
                      THEN <<>> ELSE PushedHistory(loadHistory(store), role, text),
                      Normal(<<>>))
  /\ UNCHANGED <<rawKind, sessionVars, runVars, ghostVars, relayVars, extractVars, script>>

\* saveHistory(loadHistory())
ResaveOp ==
  /\ nAppends < MaxAppends
  /\ store' = saveHistory(loadHistory(store))
  /\ nAppends' = nAppends + 1
  /\ lastCall' = Call("resave", "ok", "", NullText, loadHistory(store), Normal(<<>>))
  /\ UNCHANGED <<rawKind, sessionVars, runVars, ghostVars, relayVars, extractVars, script>>

NextStore ==
  \/ \E role \in RoleArgs, text \in TextArgs : AppendOp(role, text)
  \/ ResaveOp

SpecStore == InitStore /\ [][NextStore]_vars

-----------------------------------------------------------------------------
(* The store on a failing engine: every operation, in every mode, from every
   kind of stored value *)

\* arguments of direct calls of saveHistory
HistArgs == {<<>>, ShortTranscript, <<Turn("user", Text(0, 4000))>>}

InitEngine ==
  /\ rawKind \in RawKinds
  /\ store \in IF rawKind = "array" THEN {<<>>, ShortTranscript} ELSE {<<>>}
  /\ nAppends = 0
  /\ lastCall = NoCall
  /\ selectedModelIndex = DefaultModelIndex
  /\ currentAbortController = 0
  /\ sending = FALSE
  /\ running = 0
  /\ nextRun = 0
  /\ nUserActions = 0
  /\ pc = [r \in Runs |-> "idle"]
  /\ attemptIndex = [r \in Runs |-> -1]
  /\ attempted = [r \in Runs |-> {}]
  /\ contents = [r \in Runs |-> <<>>]
  /\ abortCount = [r \in Runs |-> 0]
  /\ tries = [r \in Runs |-> <<>>]
  /\ disturbed = {}
  /\ stoppedInBackoff = {}
  /\ lastEvent = NoEvent
  /\ RelayIdle
  /\ ExtractIdle
  /\ script = ScriptIdle

\* the persisted value and lastCall after an operation with outcome o
Persist(op, mode, role, text, hist, o) ==
  /\ nAppends < MaxAppends
  /\ rawKind' = o.kind
  /\ store' = o.st
  /\ nAppends' = nAppends + 1
  /\ lastCall' = Call(op, mode, role, text, hist, o)
  /\ UNCHANGED <<sessionVars, runVars, ghostVars, relayVars, extractVars, script>>

LoadOp(mode) ==
  Persist("load", mode, "", NullText, <<>>,
          Outcome(loadHistoryOn(mode, rawKind, store), rawKind, store))

SaveOp(mode, hist) ==
  Persist("save", mode, "", NullText, hist, saveHistoryOn(mode, rawKind, store, hist))

AppendEngineOp(mode, role, text) ==
  Persist("append", mode, role, text, <<>>,
          addMessageToHistoryOn(mode, rawKind, store, role, text))

ClearOp(mode) ==
  Persist("clear", mode, "", NullText, <<>>, clearHistoryOn(mode, rawKind, store))

NextEngine ==
  \/ \E mode \in EngineModes : LoadOp(mode)
  \/ \E mode \in EngineModes, hist \in HistArgs : SaveOp(mode, hist)
  \/ \E mode \in EngineModes, role \in {"user", ""}, text \in {Text(0, 1), NullText} :
       AppendEngineOp(mode, role, text)
  \/ \E mode \in EngineModes : ClearOp(mode)

SpecEngine == InitEngine /\ [][NextEngine]_vars

-----------------------------------------------------------------------------
(* The relay alone *)

\* the cascade, the store and the extractor at rest
ClientIdle ==
  /\ store = <<>>
  /\ nAppends = 0
  /\ rawKind = "array"
  /\ lastCall = NoCall
  /\ selectedModelIndex = DefaultModelIndex
  /\ currentAbortController = 0
  /\ sending = FALSE
  /\ running = 0
  /\ nextRun = 0
  /\ nUserActions = 0
  /\ pc = [r \in Runs |-> "idle"]
  /\ attemptIndex = [r \in Runs |-> -1]
  /\ attempted = [r \in Runs |-> {}]
  /\ contents = [r \in Runs |-> <<>>]
  /\ abortCount = [r \in Runs |-> 0]
  /\ tries = [r \in Runs |-> <<>>]
  /\ disturbed = {}
  /\ stoppedInBackoff = {}
  /\ lastEvent = NoEvent
  /\ script = ScriptIdle

\* request bodies as the client builds them (line 486), and malformed ones
PartOf(n) == JObj(<<KV("text", JStr("text", n))>>)
EntryOf(parts) == JObj(<<KV("role", JStr("user", 4)), KV("parts", JArr(parts))>>)
ShortEntry == EntryOf(<<PartOf(1)>>)
BodyOf(entries) ==
  JObj(<<KV("contents", JArr(entries)),
         KV("metadata", JObj(<<KV("model", Str(ModelId(DefaultModelIndex))),
                               KV("preset", Str(selectedPreset))>>))>>)

RequestBodies ==
  { BodyOf(<<ShortEntry>>),
    BodyOf([i \in 1..MaxContents |-> ShortEntry]),
    BodyOf([i \in 1..(MaxContents + 1) |-> ShortEntry]),
    BodyOf(<<ShortEntry, EntryOf(<<PartOf(1), PartOf(MaxPartText)>>)>>),
    BodyOf(<<ShortEntry, EntryOf(<<PartOf(1), PartOf(MaxPartText + 1)>>)>>),
    BodyOf(<<>>),
    BodyOf(<<JNull>>),
    BodyOf(<<EntryOf(<<JNull>>)>>),
    BodyOf(<<JObj(<<KV("role", JStr("user", 4))>>)>>),
    JObj(<<KV("contents", JStr("text", 4))>>),
    JObj(<<KV("contents", JArr(<<ShortEntry>>))>>),
    JStr("{}", 2),
    JUndef }

Requests ==
  { Request(method, origin, ip, body) :
      method \in {"POST", "GET"}, origin \in Origins, ip \in Addresses,
      body \in RequestBodies }

InitRelay ==
  /\ ClientIdle
  /\ ExtractIdle
  /\ env \in [apiKey : BOOLEAN, allowList : BOOLEAN]
  /\ now = 0
  /\ rateMap = [ip \in Addresses |-> NoEntry]
  /\ exchange = NoExchange
  /\ rateLog = <<>>
  /\ nRequests = 0

\* the relay handles req; the upstream API, if called, does up
Handled(req, up) ==
  /\ LET h == handler(req, up)
     IN  /\ exchange' = [req |-> req, answer |-> h.answer, at |-> now]
         /\ rateMap' = IF h.counted
                       THEN [rateMap EXCEPT ![req.ip] = CountRequest(rateMap, req.ip, now)]
                       ELSE rateMap
         /\ rateLog' = IF h.counted
                       THEN Append(rateLog, [ip |-> req.ip, t |-> now,
                                             limited |-> h.limited,
                                             retryAfter |-> h.answer.retryAfter])
                       ELSE rateLog
  /\ nRequests' = nRequests + 1
  /\ UNCHANGED <<env, now, storeVars, sessionVars, runVars, ghostVars, extractVars, script>>

\* a second passes
Tick ==
  /\ now < MaxTime
  /\ now' = now + 1
  /\ UNCHANGED <<env, rateMap, exchange, rateLog, nRequests, storeVars, sessionVars,
                 runVars, ghostVars, extractVars, script>>

\* a request of any kind
Handle(req, up) ==
  /\ nRequests < MaxRequests
  /\ up = UpstreamThrows \/ handler(req, UpstreamThrows).answer.called
  /\ Handled(req, up)

\* requests of every kind, at one moment
SpecRelay == InitRelay /\ [][\E req \in Requests, up \in UpstreamOutcomes : Handle(req, up)]_vars

\* the rate limiter alone: well-formed requests from the two addresses
HandleCounted(ip) ==
  /\ nRequests < MaxRateRequests
  /\ Handled(Request("POST", "https://app.example", ip, BodyOf(<<ShortEntry>>)),
             Upstream(200, "upstream reply"))

NextRate ==
  \/ \E ip \in Addresses : HandleCounted(ip)
  \/ Tick

SpecRate == InitRelay /\ [][NextRate]_vars

-----------------------------------------------------------------------------
(* The extractor alone: replies of many shapes, well formed and malformed *)

\* an object of the properties whose value is not undefined
ObjectOf(kv) == JObj(SelectSeq(kv, LAMBDA p : p.v.t # "undefined"))

\* what a reply may hold as content.parts, content.text and as the text of a
\* candidate; undefined stands for a property that is absent
PartsChoices ==
  { JUndef, JArr(<<>>), JArr(<<JNull>>), JArr(<<JNum(7)>>), JArr(<<JObj(<<>>)>>),
    JArr(<<JObj(<<KV("text", Str("Hi"))>>)>>),
    JArr(<<JObj(<<KV("text", Str(""))>>)>>),
    JArr(<<JObj(<<KV("text", JNum(5))>>)>>) }

Candidates ==
  { ObjectOf(<<KV("content", IF parts = JUndef /\ text = JUndef THEN JUndef
                             ELSE ObjectOf(<<KV("parts", parts), KV("text", text)>>)),
               KV("text", own)>>) :
      parts \in PartsChoices, text \in {JUndef, Str("Mid")}, own \in {JUndef, Str("Low")} }

\* candidates of replies that hold several: content with parts that are empty,
\* hold a text or a number, and content with an empty text of its own
OfContent(content) == JObj(<<KV("content", content)>>)
ContentChoices ==
  { JObj(<<KV("parts", JArr(<<>>))>>),
    JObj(<<KV("parts", JArr(<<JObj(<<KV("text", Str("A"))>>)>>))>>),
    JObj(<<KV("parts", JArr(<<JObj(<<KV("text", JNum(5))>>)>>))>>),
    JObj(<<KV("text", Str(""))>>) }

CandidatesChoices ==
  { JUndef, JArr(<<>>), JArr(<<JNull>>), JArr(<<JNum(7)>>),
    JObj(<<KV("0", JObj(<<KV("content",
                             JObj(<<KV("parts", JArr(<<JObj(<<KV("text", Str("Hi"))>>)>>))>>))>>))>>) }
    \cup { JArr(<<cand>>) : cand \in Candidates }
    \cup { JArr(<<OfContent(a), OfContent(b)>>) : a, b \in ContentChoices }

OutputChoices ==
  { JUndef, JArr(<<JNull>>),
    JArr(<<JObj(<<KV("content", Str("Hello"))>>)>>),
    JArr(<<JObj(<<KV("content", JArr(<<JObj(<<KV("text", Str("Out"))>>)>>))>>)>>),
    JArr(<<JObj(<<KV("content", JArr(<<JNull>>))>>)>>) }

NoteChoices ==
  { JUndef, JObj(<<KV("text", Str(" "))>>),
    JObj(<<KV("detail", JArr(<<JObj(<<KV("text", Str("Deep"))>>)>>))>>) }

\* raw: what sendMessageToGemini resolves to, and the values that are no reply
RawReplies ==
  { ObjectOf(<<KV("candidates", candidates), KV("output", output), KV("note", note)>>) :
      candidates \in CandidatesChoices, output \in OutputChoices, note \in NoteChoices }
    \cup { JNull, JUndef, Str(""), Str("plain text"), Str(" "), JNum(0), JNum(5),
           JArr(<<>>), JArr(<<JObj(<<KV("text", Str("Item"))>>)>>) }

InitExtract ==
  /\ ClientIdle
  /\ RelayIdle
  /\ rawReply \in RawReplies
  /\ replyText = NotExtracted

\* lines 490-505: aiText = extractTextFromResponse(raw), then the merge step
Extract ==
  /\ ~replyText.done
  /\ replyText' = normaliseReply(rawReply)
  /\ UNCHANGED <<rawReply, storeVars, sessionVars, runVars, ghostVars, relayVars, script>>

SpecExtract == InitExtract /\ [][Extract]_vars

-----------------------------------------------------------------------------
(* src/script.js: the submit handler that falls back by submitting the form
   again.  Each invocation r has its own bot bubble r (line 311); the reply
   path (lines 339-427, 485-490) is that of FetchOk and RevealDone. *)

\* script.js lines 297-338: the form is submitted, by the user or by the timer
\* of line 462 (the input still holding the text put back at line 460); the
\* user turn is persisted, the session's controller aborted, the history
\* loaded and the request sent on the selected tier
ScriptSubmit(r, automatic) ==
  /\ running = 0
  /\ r = nextRun + 1
  /\ pc[r] = "idle"
  /\ IF automatic THEN script.timer ELSE ~script.timer /\ Active = {}
  /\ LET text == Text(r, 1)
         saved == addMessageToHistory(store, "user", text)
     IN  /\ store' = saved
         /\ contents' = [contents EXCEPT ![r] = BaseContents(loadHistory(saved), text)]
  /\ sending' = TRUE
  /\ abortCount' = [AbortCurrent EXCEPT ![r] = 0]
  /\ currentAbortController' = r
  /\ tries' = [tries EXCEPT ![r] = <<selectedModelIndex>>]
  /\ pc' = [pc EXCEPT ![r] = "await"]
  /\ nextRun' = r
  /\ script' = [script EXCEPT !.timer = FALSE, !.auto = IF automatic THEN @ + 1 ELSE 0]
  /\ lastEvent' = NoEvent
  /\ UNCHANGED <<nAppends, rawKind, lastCall, selectedModelIndex, running, nUserActions,
                 attemptIndex, attempted, disturbed, stoppedInBackoff, relayVars, extractVars>>

\* script.js lines 428-490: the catch block for err and the finally block
ScriptCatch(r, err) ==
  LET next == IF selectedModelIndex + 1 < NumModels - 1
              THEN selectedModelIndex + 1 ELSE NumModels - 1
  IN  /\ running = 0
      /\ pc[r] = "await"
      /\ IF Classification[err] = "capacity" /\ next # selectedModelIndex
         THEN /\ selectedModelIndex' = next
              /\ script' = IF r \notin script.retried
                           THEN [script EXCEPT !.retried = @ \cup {r}, !.timer = TRUE]
                           ELSE script
              /\ Finish(r, "transferred")
         ELSE /\ Finish(r, CASE Classification[err] = "cancelled" -> "cancelled"
                              [] Classification[err] = "capacity" -> "exhausted"
                              [] OTHER -> "failed")
              /\ UNCHANGED <<selectedModelIndex, script>>
      /\ lastEvent' = Event(r, "error", err)
      /\ UNCHANGED <<storeVars, running, nextRun, nUserActions, relayVars, extractVars>>

NextScript ==
  \/ \E r \in Runs : ScriptSubmit(r, FALSE)
  \/ \E r \in Runs : ScriptSubmit(r, TRUE)
  \/ \E r \in Runs : FetchOk(r)
  \/ \E r \in Runs : RevealDone(r)
  \/ \E r \in Runs, err \in OtherErrors : ScriptCatch(r, err)
  \/ \E idx \in ModelIndices : SelectModel(idx)

SpecScript == InitFresh /\ [][NextScript]_vars

-----------------------------------------------------------------------------
(* The client and the relay together: one run whose requests the relay
   handles, from a transcript within the caps of the store *)

\* n turns of one character, user and assistant in turn
Dialogue(n) ==
  [i \in 1..n |-> Turn(IF i % 2 = 1 THEN "user" ELSE "assistant", Text(0, 1))]

\* transcripts within both caps: up to HISTORY_MAX_MESSAGES turns, one of
\* them as long as the character budget
CompliantTranscripts ==
  { Dialogue(n) : n \in {0, 1, 2, MaxContents - 2, MaxContents - 1, MaxContents,
                         HISTORY_MAX_MESSAGES - 1, HISTORY_MAX_MESSAGES} }
    \cup { <<Turn("user", Text(0, HISTORY_MAX_CHARS - 1)), Turn("assistant", Text(0, 1))>> }

InitSend ==
  /\ store \in CompliantTranscripts
  /\ nAppends = 0
  /\ rawKind = "array"
  /\ lastCall = NoCall
  /\ selectedModelIndex = DefaultModelIndex
  /\ currentAbortController = 0
  /\ sending = FALSE
  /\ running = 0
  /\ nextRun = 0
  /\ nUserActions = 0
  /\ pc = [r \in Runs |-> "idle"]
  /\ attemptIndex = [r \in Runs |-> -1]
  /\ attempted = [r \in Runs |-> {}]
  /\ contents = [r \in Runs |-> <<>>]
  /\ abortCount = [r \in Runs |-> 0]
  /\ tries = [r \in Runs |-> <<>>]
  /\ disturbed = {}
  /\ stoppedInBackoff = {}
  /\ lastEvent = NoEvent
  /\ script = ScriptIdle
  /\ RelayIdle
  /\ ExtractIdle

\* line 340: JSON.stringify(payload), as the relay finds it in req.body
JsonBody(body) ==
  JObj(<<KV("contents",
            JArr([i \in 1..Len(body.contents) |->
                   JObj(<<KV("role", Str(body.contents[i].role)),
                          KV("parts", JArr(<<PartOf(body.contents[i].text.len)>>))>>)])),
         KV("metadata", JObj(<<KV("model", Str(body.metadata.model)),
                               KV("preset", Str(body.metadata.preset))>>))>>)

\* the text of the relay's answer: the upstream text when the upstream answer
\* was ok (line 94), else the JSON of lines 8-102
ResponseText(a) ==
  IF a.called /\ ~a.up.threw /\ a.status \in 200..299 THEN a.body
  ELSE IF a.retryAfter >= 0 THEN RateLimitJson(a.retryAfter)
  ELSE ErrorJson(a.body)

\* lines 340-344: the request of run r's attempt reaches the relay; the
\* upstream API, if called, does up
Deliver(r, up) ==
  /\ running = 0
  /\ pc[r] = "await"
  /\ nRequests < Len(tries[r])
  /\ up = UpstreamThrows
       \/ handler(Request("POST", "https://app.example", "10.0.0.1", JsonBody(RawBody(r))),
                  UpstreamThrows).answer.called
  /\ Handled(Request("POST", "https://app.example", "10.0.0.1", JsonBody(RawBody(r))), up)

\* lines 344-353, 488-489: the answer reaches the client; a text that is not
\* JSON is the reply itself
Receive(r) ==
  /\ nRequests = Len(tries[r])
  /\ IF exchange.answer.status \in 200..299
     THEN FetchOk(r)
     ELSE FetchFailed(r, HttpError(exchange.answer.status, ResponseText(exchange.answer)))

NextSend ==
  \/ Submit(1)
  \/ StartRun(1)
  \/ Issue(1)
  \/ \E up \in UpstreamOutcomes : Deliver(1, up)
  \/ Receive(1)
  \/ RevealDone(1)
  \/ BackoffDone(1)

SpecSend == InitSend /\ [][NextSend]_vars

-----------------------------------------------------------------------------
(* Properties *)

Range(t) == { t[i] : i \in 1..Len(t) }
Last(t) == t[Len(t)]
StrictlyIncreasing(t) == \A i \in 1..(Len(t) - 1) : t[i] < t[i + 1]
InFlight(r) == pc[r] = "await" /\ abortCount[r] = 0
HasTurn(st, role, r) == \E i \in 1..Len(st) : st[i].role = role /\ st[i].text.run = r

\* the messages of the model that carry a capacity signal
CapacityMessages == {MsgTooMany, MsgResourceUpper, MsgResourceMixed, MsgOverloaded}

\* C1: after any sequence of appends the persisted transcript holds at most
\* HISTORY_MAX_MESSAGES turns, and its texts total at most HISTORY_MAX_CHARS
\* characters unless it consists of exactly one turn that alone exceeds the cap
C1_StoreWithinCaps ==
  /\ Len(store) <= HISTORY_MAX_MESSAGES
  /\ \/ SumLen(store) <= HISTORY_MAX_CHARS
     \/ Len(store) = 1 /\ store[1].text.len > HISTORY_MAX_CHARS

\* an oversize turn was appended to a full transcript and is all that is left
C1_Witness ==
  /\ nAppends >= 3
  /\ Len(store) = 1
  /\ store[1].text.len > HISTORY_MAX_CHARS

\* C2: a run whose attempts all fail with capacity exhaustion, started at tier s,
\* has made exactly NumModels - s attempts, at s, s+1, ..., NumModels-1 in that
\* order, when it ends exhausted, and the selection is then the last tier
\* (nothing but the run having moved the selection since its last attempt);
\* s is the selection the run found when it started
C2_ExhaustionSweep ==
  /\ \A r \in Runs :
       (pc[r] = "issue" /\ tries[r] = <<>>) => attemptIndex[r] = selectedModelIndex
  /\ \A r \in Runs :
       (lastEvent.run = r /\ lastEvent.kind = "error" /\ pc[r] = "exhausted") =>
         LET t == lastEvent.tries
             s == t[1]
         IN  /\ Len(t) = NumModels - s
             /\ \A i \in 1..Len(t) : t[i] = s + i - 1
             /\ ~lastEvent.disturbed => selectedModelIndex = NumModels - 1

\* a run started at tier 0 has just ended exhausted after five attempts
C2_Witness ==
  /\ lastEvent.kind = "error"
  /\ lastEvent.run \in Runs
  /\ pc[lastEvent.run] = "exhausted"
  /\ lastEvent.tries = <<0, 1, 2, 3, 4>>
  /\ selectedModelIndex = NumModels - 1

C4_StrictlyForward ==
  /\ \A r \in Runs :
       /\ StrictlyIncreasing(tries[r])
       /\ pc[r] \in {"await", "backoff", "reveal"} => attempted[r] = Range(tries[r])
       /\ pc[r] = "backoff" => attemptIndex[r] > Last(tries[r])
  /\ StrictlyIncreasing(lastEvent.tries)

\* a run is at its third attempt
C4_Witness == \E r \in Runs : pc[r] = "await" /\ Len(tries[r]) >= 3

\* C5: at most one attempt is in flight at any moment
C5_SingleFlight == Cardinality({ r \in Runs : InFlight(r) }) <= 1

\* C6: a run whose in-flight attempt was aborted before its response appends no
\* assistant turn: not while the aborted request is pending, not when it settles,
\* not after the run has ended cancelled
C6_NoReplyAfterAbort ==
  \A r \in Runs :
    (\/ pc[r] = "await" /\ abortCount[r] > 0
     \/ lastEvent.run = r /\ lastEvent.err = AbortErr
     \/ pc[r] = "cancelled") =>
      ~HasTurn(store, "assistant", r)

\* an aborted request has just settled and its run has ended cancelled
C6_Witness ==
  /\ lastEvent.err = AbortErr
  /\ lastEvent.run \in Runs
  /\ pc[lastEvent.run] = "cancelled"
  /\ HasTurn(store, "user", lastEvent.run)

\* C7: a run for which stop was pressed during its backoff issues no further
\* attempt
C7_StopInBackoffStops ==
  [][\A r \in stoppedInBackoff : tries'[r] = tries[r]]_vars

\* C8: when a run is about to issue its first attempt, every other run that
\* still awaits a response has had its attempt cancelled exactly once
C8_PriorCancelledOnce ==
  \A r \in Runs :
    (pc[r] = "issue" /\ tries[r] = <<>>) =>
      \A p \in Runs \ {r} : pc[p] = "await" => abortCount[p] = 1

\* C9: when a run has persisted its user turn, the token of every other active
\* run has been aborted
C9_AbortBeforeWrite ==
  \A r \in Runs :
    pc[r] = "start" =>
      \A p \in Active \ {r} : abortCount[p] >= 1

\* C10: when a run is about to issue its first request its user turn is the
\* last turn of the store, and an assistant turn is appended only by a run that
\* is revealing the reply it received from an attempt that was not aborted, and
\* that thereby ends succeeded
C10_Inv ==
  \A r \in Runs :
    (pc[r] = "issue" /\ tries[r] = <<>>) =>
      (store # <<>> /\ Last(store) = Turn("user", Text(r, 1)))

C10_Step ==
  \A r \in Runs :
    (HasTurn(store', "assistant", r) /\ ~HasTurn(store, "assistant", r)) =>
      (pc[r] = "reveal" /\ pc'[r] = "succeeded")

\* C10: the user turn is persisted before the first request of its run, and an
\* assistant turn is appended only after a successful, non-cancelled reply
C10_TurnOrder == []C10_Inv /\ [][C10_Step]_vars

\* a run has succeeded and its reply follows its user turn in the store
C10_Witness ==
  \E r \in Runs :
    /\ pc[r] = "succeeded"
    /\ Len(store) >= 2
    /\ store[Len(store) - 1] = Turn("user", Text(r, 1))
    /\ Last(store) = Turn("assistant", Text(r, 1))

\* the number of turns of the given role that run r wrote
CountTurns(st, role, r) ==
  Cardinality({ i \in 1..Len(st) : st[i].role = role /\ st[i].text.run = r })

\* C11: a run that has ended cancelled, exhausted or failed has no assistant
\* turn in the store, and no step of a run other than its submission and the
\* end of its reveal changes the store, so the store is left as the run's user
\* turn left it
C11_Inv ==
  \A r \in Runs :
    pc[r] \in {"cancelled", "exhausted", "failed"} => ~HasTurn(store, "assistant", r)

C11_Step ==
  \A r \in Runs :
    (pc[r] \in ActivePcs /\ pc'[r] # pc[r] /\ pc'[r] # "succeeded") => store' = store

\* C11: a run that ends cancelled, exhausted or failed leaves the store as it
\* was right after it persisted its user turn
C11_FailureLeavesStore == []C11_Inv /\ [][C11_Step]_vars

\* a run has just ended exhausted and its user turn is all the store holds
C11_Witness ==
  /\ lastEvent.kind = "error"
  /\ lastEvent.run \in Runs
  /\ pc[lastEvent.run] = "exhausted"
  /\ store = <<Turn("user", Text(lastEvent.run, 1))>>

\* C12: when an attempt whose token was not aborted fails with a message that
\* carries no capacity signal, the run ends failed
C12_OtherFailureFails ==
  \A r \in Runs :
    (lastEvent.run = r /\ lastEvent.kind = "error" /\ ~lastEvent.aborted
       /\ lastEvent.err.message \notin CapacityMessages) =>
      pc[r] = "failed"

\* C13: the run whose attempt just settled with an error has ended cancelled
\* exactly when abort() had been called on that attempt's controller
C13_CancelledIffAborted ==
  \A r \in Runs :
    (lastEvent.run = r /\ lastEvent.kind = "error") =>
      (pc[r] = "cancelled" <=> lastEvent.aborted)

\* C14: a run that ends exhausted has attempted every tier of the list, and its
\* last attempt failed with a capacity message
C14_ExhaustedTriedAll ==
  \A r \in Runs :
    (lastEvent.run = r /\ lastEvent.kind = "error" /\ pc[r] = "exhausted") =>
      /\ Range(lastEvent.tries) = ModelIndices
      /\ lastEvent.err.message \in CapacityMessages

\* C15: when a run ends succeeded the selection is the tier of the attempt
\* that produced the reply
C15_SelectionIsReplyTier ==
  \A r \in Runs :
    (lastEvent.run = r /\ lastEvent.kind = "revealed" /\ pc[r] = "succeeded") =>
      selectedModelIndex = Last(lastEvent.tries)

\* C16: a run that reveals its reply with abort() called on its controller since
\* the response arrived can always finish the reveal, and its next step ends it
\* succeeded with exactly one assistant turn of its own in the store
C16_Inv ==
  \A r \in Runs :
    (pc[r] = "reveal" /\ abortCount[r] > 0 /\ running = 0) => ENABLED RevealDone(r)

C16_Step ==
  \A r \in Runs :
    (pc[r] = "reveal" /\ abortCount[r] > 0 /\ pc'[r] # pc[r]) =>
      /\ pc'[r] = "succeeded"
      /\ CountTurns(store', "assistant", r) = 1
      /\ Last(store') = Turn("assistant", Text(r, 1))

\* C16: a stop request after the response was received does not change the
\* outcome of the run
C16_StopAfterResponse == []C16_Inv /\ [][C16_Step]_vars

\* a run stopped during its reveal has just ended succeeded with its reply stored
C16_Witness ==
  /\ lastEvent.kind = "revealed"
  /\ lastEvent.aborted
  /\ lastEvent.run \in Runs
  /\ pc[lastEvent.run] = "succeeded"
  /\ store # <<>>
  /\ Last(store) = Turn("assistant", Text(lastEvent.run, 1))

\* C17: an append with a role other than user and assistant, or with a null
\* text, leaves the transcript unchanged; any other append leaves save applied
\* to the previous transcript with the new turn at its end
C17_AppendContract ==
  lastCall.op = "append" =>
    IF lastCall.role \notin {"user", "assistant"} \/ lastCall.text = NullText
    THEN store = lastCall.before
    ELSE store = saveHistory(Append(lastCall.before, Turn(lastCall.role, lastCall.text)))

\* C18: no store operation raises; load returns the empty transcript when the
\* key is missing, the value is unparseable, not an array or holds a bad element,
\* or the engine throws on read, and never changes the persisted value; when the
\* engine throws on write or delete the persisted value is unchanged
C18_StoreNeverRaises ==
  lastCall.op # "none" =>
    /\ ~lastCall.raised
    /\ lastCall.op = "load" =>
         /\ (lastCall.mode = "readThrows" \/ lastCall.beforeKind # "array") =>
              lastCall.value = <<>>
         /\ store = lastCall.before /\ rawKind = lastCall.beforeKind
    /\ (lastCall.op \in {"save", "append", "clear"} /\ lastCall.mode = "writeThrows") =>
         (store = lastCall.before /\ rawKind = lastCall.beforeKind)

\* an append on an engine that throws on write has returned and the two stored
\* turns are still there
C18_Witness ==
  /\ lastCall.op = "append"
  /\ lastCall.mode = "writeThrows"
  /\ lastCall.role = "user"
  /\ lastCall.text # NullText
  /\ ~lastCall.raised
  /\ store = ShortTranscript

\* C19: save(load()) of a persisted transcript writes back the same sequence
C19_ResaveIdempotent == lastCall.op = "resave" => store = lastCall.before

\* a transcript at the count cap has been saved again
C19_Witness ==
  /\ lastCall.op = "resave"
  /\ Len(lastCall.before) = HISTORY_MAX_MESSAGES
  /\ Len(store) = HISTORY_MAX_MESSAGES

\* the last k elements of t
SuffixOf(t, k) == SubSeq(t, Len(t) - k + 1, Len(t))

\* C20: what save persists is a suffix of its input, within the count cap, and
\* within the budget or one turn long; when it is shorter than the count cap
\* allows, the suffix one turn longer is over the budget
C20_EvictOldestFirst ==
  (lastCall.op = "append" /\ lastCall.hist # <<>>) =>
    LET in == lastCall.hist
        out == store
    IN  /\ Len(out) >= 1
        /\ Len(out) <= Len(in)
        /\ Len(out) <= HISTORY_MAX_MESSAGES
        /\ out = SuffixOf(in, Len(out))
        /\ SumLen(out) <= HISTORY_MAX_CHARS \/ Len(out) = 1
        /\ (Len(out) < Len(in) /\ Len(out) < HISTORY_MAX_MESSAGES) =>
             SumLen(SuffixOf(in, Len(out) + 1)) > HISTORY_MAX_CHARS

\* a save has evicted for the budget and stopped with more than one turn left
C20_Witness ==
  /\ lastCall.op = "append"
  /\ Len(lastCall.hist) <= HISTORY_MAX_MESSAGES
  /\ Len(store) < Len(lastCall.hist)
  /\ Len(store) >= 2

\* C21: right after the submission the run's contents are the turns of the
\* store before its user turn, in order, assistant mapped to model and every
\* other role to user, followed by the run's text once; the contents do not
\* change while the run is active; every request carries these contents, the
\* identifier of the tier at attemptIndex and the preset
C21_Inv ==
  \A r \in Runs :
    /\ pc[r] = "start" =>
         /\ Len(contents[r]) = Len(store)
         /\ \A i \in 1..(Len(store) - 1) :
              /\ contents[r][i].text = store[i].text
              /\ contents[r][i].role = IF store[i].role = "assistant" THEN "model" ELSE "user"
         /\ Last(contents[r]) = [role |-> "user", text |-> Text(r, 1)]
         /\ Cardinality({ i \in 1..Len(contents[r]) : contents[r][i].text.run = r }) = 1
    /\ (lastEvent.kind = "issued" /\ lastEvent.run = r) =>
         /\ lastEvent.body.contents = contents[r]
         /\ lastEvent.body.metadata.model = modelChoices[Last(tries[r]) + 1]
         /\ attemptIndex[r] = Last(tries[r])

C21_Step ==
  \A r \in Runs :
    (pc[r] \in ActivePcs /\ pc'[r] \in ActivePcs) => contents'[r] = contents[r]

\* C21: every attempt of a run sends the contents built from the snapshot taken
\* at submission, and the identifier of the tier at attemptIndex
C21_RequestBody == []C21_Inv /\ [][C21_Step]_vars

\* a run whose snapshot held an assistant turn has sent its second request
C21_Witness ==
  /\ lastEvent.kind = "issued"
  /\ lastEvent.run \in Runs
  /\ Len(tries[lastEvent.run]) = 2
  /\ Len(lastEvent.body.contents) = 3
  /\ lastEvent.body.contents[2].role = "model"
  /\ lastEvent.body.metadata.model = "gemini-2.0-flash"

\* the requests of one address that reached the rate-limit check, in order
LogOf(ip) == SelectSeq(rateLog, LAMBDA e : e.ip = ip)

\* the start of the window the k-th of these requests falls in: a window starts
\* with the first request, and with each request that comes after the window
\* of the request before it has expired
RECURSIVE WindowStart(_, _)
WindowStart(l, k) ==
  IF k = 1 THEN l[1].t
  ELSE IF l[k].t > WindowStart(l, k - 1) + RATE_LIMIT_WINDOW THEN l[k].t
  ELSE WindowStart(l, k - 1)

\* how many requests of its window came up to the k-th, itself included
PlaceInWindow(l, k) ==
  Cardinality({ j \in 1..k : WindowStart(l, j) = WindowStart(l, k) })

\* whether the latest request, which reached the rate-limit check, is over the limit
OverLimit ==
  LET l == LogOf(exchange.req.ip)
  IN  Len(l) > 0 /\ PlaceInWindow(l, Len(l)) > RATE_LIMIT_MAX

\* a body the relay must reject: missing or not an object, contents not an
\* array, empty or longer than ten entries, or a part text over 8000 characters
OversizePart(p) ==
  p.t = "object" /\ Prop(p, "text").t = "string" /\ Prop(p, "text").len > 8000

OversizeEntry(c) ==
  /\ c.t = "object"
  /\ Prop(c, "parts").t = "array"
  /\ \E j \in 1..Len(Prop(c, "parts").items) : OversizePart(Prop(c, "parts").items[j])

InvalidPayload(body) ==
  \/ body.t \notin {"object", "array"}
  \/ Prop(body, "contents").t # "array"
  \/ Len(Prop(body, "contents").items) = 0
  \/ Len(Prop(body, "contents").items) > 10
  \/ \E i \in 1..Len(Prop(body, "contents").items) :
       OversizeEntry(Prop(body, "contents").items[i])

\* a body with a null entry or a null part, which the relay rejects as well
MalformedPayload(body) ==
  /\ ~InvalidPayload(body)
  /\ \E i \in 1..Len(Prop(body, "contents").items) :
       LET c == Prop(body, "contents").items[i]
       IN  \/ c.t = "null"
           \/ /\ Prop(c, "parts").t = "array"
              /\ \E j \in 1..Len(Prop(c, "parts").items) :
                   Prop(c, "parts").items[j].t = "null"

\* C22: a request with such a body gets no upstream call, and is answered 400
\* unless an earlier check (405, 500, 403, 429) answered it
C22_InvalidPayloadRejected ==
  (exchange # NoExchange /\ InvalidPayload(exchange.req.body)) =>
    /\ ~exchange.answer.called
    /\ exchange.answer.status \in {405, 500, 403, 429, 400}
    /\ (/\ exchange.req.method = "POST"
        /\ env.apiKey
        /\ (env.allowList => exchange.req.origin \in AllowedOrigins)
        /\ ~OverLimit) => exchange.answer.status = 400

\* a request whose second entry holds a part of 8001 characters was answered 400
C22_Witness ==
  /\ exchange.answer.status = 400
  /\ exchange.answer.body = "Bad request: message too long"
  /\ ~exchange.answer.called
  /\ OversizeEntry(Prop(exchange.req.body, "contents").items[2])

\* C23: the body the relay forwards has no metadata.model, and its contents
\* are those of the request
C23_MetadataStripped ==
  exchange.answer.called =>
    /\ Prop(Prop(exchange.answer.forwarded, "metadata"), "model") = JUndef
    /\ Prop(exchange.answer.forwarded, "contents") = Prop(exchange.req.body, "contents")

\* C24: of the requests of one address in one window the first RATE_LIMIT_MAX
\* pass the check and every further one is answered 429 with the seconds up
\* to the end of the window as Retry-After
C24_RateLimit ==
  \A ip \in Addresses :
    LET l == LogOf(ip)
    IN  \A k \in 1..Len(l) :
          IF PlaceInWindow(l, k) <= RATE_LIMIT_MAX
          THEN ~l[k].limited
          ELSE /\ l[k].limited
               /\ l[k].retryAfter = WindowStart(l, k) + RATE_LIMIT_WINDOW - l[k].t

\* an address was limited, and passed the check again once its window had expired
C24_Witness ==
  \E ip \in Addresses :
    LET l == LogOf(ip)
    IN  /\ Len(l) >= 3
        /\ l[Len(l) - 1].limited
        /\ l[Len(l) - 1].retryAfter >= 0
        /\ ~l[Len(l)].limited
        /\ l[Len(l)].t > l[Len(l) - 1].t

\* C25: the upstream API is called, with the credential, only for a POST that
\* finds the credential configured, comes from an allowed origin when there is
\* an allow-list, is within the rate limit and has a valid payload; every such
\* request leads to a call; any other is answered, without a call, by the first
\* failing check: 405, 500, 403, 429, 400
C25_UpstreamOnlyWhenAllowed ==
  exchange # NoExchange =>
    LET req == exchange.req
        a == exchange.answer
        originOk == env.allowList => req.origin \in AllowedOrigins
        reached == req.method = "POST" /\ env.apiKey /\ originOk
        valid == ~InvalidPayload(req.body) /\ ~MalformedPayload(req.body)
        expected == IF req.method # "POST" THEN 405
                    ELSE IF ~env.apiKey THEN 500
                    ELSE IF ~originOk THEN 403
                    ELSE IF OverLimit THEN 429
                    ELSE IF ~valid THEN 400
                    ELSE 0
    IN  /\ a.called <=> expected = 0
        /\ a.called => (a.credential /\ reached /\ ~OverLimit /\ valid)
        /\ ~a.called => a.status = expected

\* a valid POST from the allowed origin was forwarded with the credential
C25_Witness ==
  /\ env.allowList
  /\ exchange.req.origin \in AllowedOrigins
  /\ exchange.answer.called
  /\ exchange.answer.credential
  /\ exchange.answer.status = 200

\* C26: the relay returns the upstream status; the upstream body on success;
\* on failure the upstream body when debug mode is on, else the generic body
C26_MirrorOrDebug ==
  (exchange.answer.called /\ ~exchange.answer.up.threw) =>
    LET a == exchange.answer
    IN  /\ a.status = a.up.status
        /\ a.body = IF a.up.status \in 200..299 THEN a.up.body
                    ELSE IF DEBUG_SHOW_ERRORS THEN a.up.body
                    ELSE "Upstream API error"

\* C26, amended: the relay returns the upstream status; the upstream body on
\* success; on failure always the generic body
C26_MirrorMasked ==
  (exchange.answer.called /\ ~exchange.answer.up.threw) =>
    LET a == exchange.answer
    IN  /\ a.status = a.up.status
        /\ a.body = IF a.up.status \in 200..299 THEN a.up.body
                    ELSE "Upstream API error"

\* an upstream 503 came back as 503 with the generic body
C26_Witness ==
  /\ exchange.answer.called
  /\ exchange.answer.up = Upstream(503, "upstream overloaded detail")
  /\ exchange.answer.status = 503
  /\ exchange.answer.body = "Upstream API error"

\* the first element of a non-empty array
FirstOf(v) == IF NonEmptyArray(v) THEN v.items[1] ELSE JUndef

\* the text of the first candidate: the string text of the first element of
\* content.parts, else the string content.text, else the string text of the
\* candidate; undefined when the candidate has none of them
CandidatePick(raw) ==
  LET cand == FirstOf(Prop(raw, "candidates"))
      content == Prop(cand, "content")
      part == FirstOf(Prop(content, "parts"))
  IN  IF Prop(part, "text").t = "string" THEN Prop(part, "text")
      ELSE IF Prop(content, "text").t = "string" THEN Prop(content, "text")
      ELSE IF Prop(cand, "text").t = "string" THEN Prop(cand, "text")
      ELSE JUndef

\* the text of the first output entry: its content when that is a string,
\* else the string text of the first element of its content
OutputPick(raw) ==
  LET out == FirstOf(Prop(raw, "output"))
      content == Prop(out, "content")
  IN  IF content.t = "string" THEN content
      ELSE IF Prop(FirstOf(content), "text").t = "string" THEN Prop(FirstOf(content), "text")
      ELSE JUndef

\* the strings and numbers held anywhere in v under the name text or content
RECURSIVE TextsIn(_)
TextsIn(v) ==
  IF v.t = "array" THEN UNION { TextsIn(v.items[i]) : i \in 1..Len(v.items) }
  ELSE IF v.t = "object"
  THEN { v.kv[i].v : i \in { j \in 1..Len(v.kv) :
                                /\ v.kv[j].k \in {"text", "content"}
                                /\ v.kv[j].v.t \in {"string", "number"} } }
       \cup UNION { TextsIn(v.kv[i].v) : i \in 1..Len(v.kv) }
  ELSE {}

NonBlankTexts(v) == { x \in TextsIn(v) : x.t = "string" /\ TrimText(x.s) # "" }

\* the first element of candidates, or of the parts of the first candidate, is
\* null or not an object
MalformedFirst(raw) ==
  LET candidates == Prop(raw, "candidates")
      parts == Prop(Prop(FirstOf(candidates), "content"), "parts")
  IN  \/ NonEmptyArray(candidates) /\ FirstOf(candidates).t # "object"
      \/ NonEmptyArray(parts) /\ FirstOf(parts).t # "object"

\* C27: for a reply with a non-empty candidates array the result is the text
\* of the first candidate, whatever else the reply holds
C27_CandidateTextWins ==
  (/\ replyText.done
   /\ NonEmptyArray(Prop(rawReply, "candidates"))
   /\ CandidatePick(rawReply) # JUndef) =>
    replyText.value = CandidatePick(rawReply)

\* C28: for a reply whose candidates give no text and whose output array is
\* not empty the result is the text of the first output entry
C28_OutputText ==
  (/\ replyText.done
   /\ rawReply.t = "object"
   /\ CandidatePick(rawReply) = JUndef
   /\ NonEmptyArray(Prop(rawReply, "output"))
   /\ OutputPick(rawReply) # JUndef) =>
    replyText.value = OutputPick(rawReply)

\* C29: the result is null only for a raw that is null or undefined; a string
\* raw is returned unchanged; any other raw that is not null and holds no text
\* gives its stringified dump, which is not null
C29_NullOnlyForNull ==
  replyText.done =>
    /\ replyText.value = JNull => rawReply \in {JNull, JUndef}
    /\ rawReply.t = "string" => replyText.value = rawReply
    /\ (rawReply.t \notin {"null", "undefined", "string"} /\ TextsIn(rawReply) = {}) =>
         /\ replyText.value # JNull
         /\ replyText.value = Str(Stringify(rawReply))

\* C29, amended: the result is null exactly for an empty raw (null, undefined,
\* the empty string, zero); a non-empty string raw is returned unchanged; any
\* other non-empty raw that holds no text gives its stringified dump
C29_NullOnlyForEmpty ==
  replyText.done =>
    /\ replyText.value = JNull <=> ~Truthy(rawReply)
    /\ (rawReply.t = "string" /\ rawReply.len > 0) => replyText.value = rawReply
    /\ (Truthy(rawReply) /\ rawReply.t # "string" /\ TextsIn(rawReply) = {}) =>
         replyText.value = Str(Stringify(rawReply))

\* a reply that holds no text came back as its dump
C29_Witness ==
  /\ replyText.done
  /\ rawReply = JObj(<<KV("candidates", JArr(<<JObj(<<KV("content", JObj(<<KV("parts", JArr(<<>>))>>))>>)>>))>>)
  /\ replyText.value = Str("{\"candidates\":[{\"content\":{\"parts\":[]}}]}")

\* C30: when the first element of candidates or of parts is malformed and the
\* reply holds a non-blank text or content string, the result is such a string
C30_MalformedSkipped ==
  (/\ replyText.done
   /\ MalformedFirst(rawReply)
   /\ NonBlankTexts(rawReply) # {}) =>
    replyText.value \in NonBlankTexts(rawReply)

\* C31: one turn submitted by the user causes at most one automatic
\* resubmission of the form
C31_RetryOnce == script.auto <= 1

\* C32: the relay rejects no request of the cascade for the length of its
\* contents or the size of a part
C32_RequestsPassValidation ==
  ~(/\ exchange.answer.status = 400
    /\ exchange.answer.body \in {"Bad request: invalid contents", "Bad request: message too long"})

\* C38: when the upstream API fails an attempt with a status other than 429
\* and a capacity signal in its body, and a later tier is left, the run goes
\* into its backoff for the next tier
C38_BodySignalFallsBack ==
  (/\ lastEvent.kind = "error"
   /\ exchange.answer.called
   /\ ~exchange.answer.up.threw
   /\ exchange.answer.up.status \notin 200..299
   /\ exchange.answer.up.status # 429
   /\ IsLimit(Chars(exchange.answer.up.body))
   /\ lastEvent.tries[Len(lastEvent.tries)] < NumModels - 1) =>
    /\ pc[lastEvent.run] = "backoff"
    /\ attemptIndex[lastEvent.run] = lastEvent.tries[Len(lastEvent.tries)] + 1

\* C33: while the request of a run is in flight and abort() has not been
\* called on its controller, that controller is the session's current one
C33_TokenOfInFlightAttempt ==
  \A r \in Runs : (pc[r] = "await" /\ abortCount[r] = 0) => currentAbortController = r

\* C34: an empty transcript stays empty until the next submission
C34_EmptyUntilSubmission ==
  [][(store = <<>> /\ nextRun' = nextRun) => store' = <<>>]_vars

\* C35: the transcript holds no assistant turn of a run after the user turn of
\* a later run
C35_NoLateReply ==
  \A i, j \in 1..Len(store) :
    ~(/\ i < j
      /\ store[i].role = "user"
      /\ store[j].role = "assistant"
      /\ store[j].text.run > 0
      /\ store[i].text.run > store[j].text.run)

\* C36: every step leaves the selection an index of the tier list, and as long
\* as the user has selected nothing no step lowers it
C36_SelectionNeverDecreases ==
  [][/\ selectedModelIndex' \in ModelIndices
     /\ (nUserActions' = 0 => selectedModelIndex' >= selectedModelIndex)]_vars

\* C37: when every request settles, every run reaches Succeeded, Cancelled,
\* ExhaustedFailure or Failed; it makes at most N - s attempts from start tier
\* s; and the step that ends it clears the sending mark
TerminalPcs == {"succeeded", "cancelled", "exhausted", "failed"}
C37_RunTerminates ==
  /\ \A r \in Runs : (pc[r] \in ActivePcs) ~> (pc[r] \in TerminalPcs)
  /\ [](\A r \in Runs : tries[r] # <<>> => Len(tries[r]) <= NumModels - tries[r][1])
  /\ [][\A r \in Runs : (pc[r] \in ActivePcs /\ pc'[r] \notin ActivePcs) =>
                           (pc'[r] \in TerminalPcs /\ ~sending')]_vars
C37_Witness ==
  /\ lastEvent.kind = "error"
  /\ pc[lastEvent.run] = "exhausted"
  /\ Len(lastEvent.tries) = NumModels - lastEvent.tries[1]
  /\ Len(lastEvent.tries) > 1
  /\ ~sending

\* C39: for a reply with several candidates the merge step ran exactly when
\* the extraction of line 490 found no text in the reply
PrimaryFound(raw) ==
  LET body == TryCatch(extractBody(raw), NoReturn)
  IN  body.value # NoReturn /\ Truthy(body.value)
SeveralCandidates(raw) ==
  Truthy(raw) /\ Prop(raw, "candidates").t = "array" /\ Len(Prop(raw, "candidates").items) > 1
C39_MergeWhenNoText ==
  (replyText.done /\ SeveralCandidates(rawReply)) =>
    (replyText.merged <=> ~PrimaryFound(rawReply))

====
